---------------------------- MODULE Spec2Model ----------------------------
(***************************************************************************)
(* A model of the account manager plugin (acct_mgr): the chain of password *)
(* stores (api.py), the file backed stores (htfile.py), the session store  *)
(* (db.py) and the user id rename engine (model.py).                       *)
(*                                                                         *)
(* Eight specifications share the module:                                  *)
(*   SpecStore   - one password store on its own (file or session backed)  *)
(*   SpecWriters - two processes in _update_file on one password file      *)
(*   SpecCrash   - a process that stops inside _update_file                *)
(*   SpecChain   - AccountManager over an ordered list of stores           *)
(*   SpecCasing  - AccountManager and uids that differ in letter case      *)
(*   SpecRename  - change_uid and the IUserIdChanger components            *)
(*   SpecReset   - password reset, login and password change (web_ui.py)   *)
(*   SpecListedOnce - SpecChain started with every uid in one store        *)
(***************************************************************************)
EXTENDS Integers, Sequences, FiniteSets, TLC

(***************************************************************************)
(* Bounds of the model.                                                    *)
(***************************************************************************)
\* Lines of the password file the file specification starts with.
MaxInitLines == 2

\* Python's None (also SQL NULL), and the values True and False where a call
\* returns one of the three.
None == "None"
PyTrue == "True"
PyFalse == "False"
Py(b) == IF b THEN PyTrue ELSE PyFalse

\* Account identifiers.  They are non-empty and hold no ':' (api.py,
\* username_char_blacklist), so a uid is one field of a password file line.
Users == {"a", "b"}

\* A uid with an upper case letter, as a request may carry it, and
\* unicode.lower().
MixedCase == {"A"}
Lower(user) == IF user = "A" THEN "a" ELSE user

\* Clear text passwords.
Passwords == {"p1", "p2"}

VARIABLES
    \* ---- one store under test (SpecStore) ----
    store,          \* "HtPasswdStore", "HtDigestStore" or "SessionStore"
    os_linesep,     \* os.linesep of the platform: "LF" or "CRLF"
    hash_method,    \* [account-manager] hash_method of SessionStore
    fromEmpty,      \* the store held no account at the start
    liveUsers,      \* users set and not deleted since the start
    \* ---- configuration of AccountManager (SpecChain) ----
    password_stores, \* [account-manager] password_store: store kinds in order
    refresh_passwd,  \* [account-manager] refresh_passwd
    radius_up,       \* the RADIUS server answers (else the request times out)
    ignore_auth_case, \* [trac] ignore_auth_case
    \* ---- storage ----
    passwordFile,   \* the password file: NoFile, or its lines in order
    svn_users,      \* [users] section of svnserve's password file
    session,        \* table session (authenticated=1): sid -> last_visit
    session_attribute, \* table session_attribute (authenticated=1):
                       \* [sid, name] -> value, None where there is no row
    auth_cookie,    \* table auth_cookie: cookie -> name
    permission,     \* table permission: set of <<username, action>>
    \* ---- what the user id changers work on (SpecRename) ----
    authored,       \* tables attachment, component, report, revision, wiki:
                    \* table -> user -> number of rows of that user
    ticket,         \* table ticket: id -> [owner, reporter, cc]
    ticket_change,  \* table ticket_change: set of rows
    changer_table,  \* attribute table of the TicketUserIdChanger component
    dbtype,         \* the database backend: "sqlite" or "postgres"
    \* ---- calls of _update_file in progress (SpecWriters, SpecCrash) ----
    writers,        \* process -> position in _update_file and its locals
    \* ---- outcome of the last call (all specifications) ----
    last

storeVars == <<store, fromEmpty, liveUsers>>
chainCfg  == <<password_stores, refresh_passwd, radius_up, ignore_auth_case>>
platform  == <<os_linesep, hash_method>>
inProgress == <<writers>>
auxTables == <<session, auth_cookie, permission>>
otherStorage == <<svn_users>>
renameVars == <<authored, ticket, ticket_change, changer_table, dbtype>>

vars == <<store, fromEmpty, liveUsers, password_stores, refresh_passwd,
          radius_up, ignore_auth_case, os_linesep, hash_method, passwordFile, svn_users,
          session, session_attribute, auth_cookie, permission, authored,
          ticket, ticket_change, changer_table, dbtype, writers, last>>

(***************************************************************************)
(* Sequence helpers.                                                       *)
(***************************************************************************)
Range(s) == {s[i] : i \in DOMAIN s}

SeqsUpTo(S, n) == UNION {[1..k -> S] : k \in 0..n}

(***************************************************************************)
(* Password hashes (acct_mgr/pwhash.py).  A hash is a string determined by *)
(* the method and its inputs: two hashes are equal iff these are equal.    *)
(***************************************************************************)
\* unicode.encode('utf-8') / str.decode('utf-8')
Utf8Encode(u) == "utf8:" \o u
Utf8Decode(b) == CHOOSE u \in Users \cup MixedCase : Utf8Encode(u) = b

\* htdigest(user, realm, password): the digest covers user, realm, password.
htdigest(user, realm, password) ==
    "htdigest(" \o user \o "," \o realm \o "," \o password \o ")"

\* mkhtpasswd(password, hash_type): the hash covers the password (and a salt
\* stored with it, which htpasswd(password, hash) reads back from the hash).
mkhtpasswd(password) == "htpasswd(" \o password \o ")"

\* htpasswd(password, hash): hashes password the way `hash` was made; a
\* string that is no htpasswd hash is taken for a crypt salt.
htpasswd(password, hash) ==
    IF \E p \in Passwords : hash \in {mkhtpasswd(p), mkhtpasswd(Utf8Encode(p))}
    THEN mkhtpasswd(password)
    ELSE "crypt(" \o password \o ")"

(***************************************************************************)
(* File backed store: AbstractPasswordFileStore, HtPasswdStore,            *)
(* HtDigestStore (htfile.py).                                              *)
(*                                                                         *)
(* A line of the file is [user, realm, hash, eol]: the text                *)
(* "user:hash" (realm = None) or "user:realm:hash", and its terminator     *)
(* "LF", "CRLF" or "NONE" (the last line of a file may lack one).          *)
(* user is the utf-8 encoded uid.                                          *)
(***************************************************************************)
NoFile == [exists |-> FALSE, lines |-> <<>>]

\* A password file with these lines.
File(lines) == [exists |-> TRUE, lines |-> lines]

\* No userline: _update_file(prefix, None) deletes.
NoLine == [user |-> None, realm |-> None, hash |-> None]

\* The realm of HtDigestStore (htdigest_realm) and another realm that lines
\* of a shared htdigest file may carry.
htdigest_realm == "TestRealm"
OtherRealm == "OtherRealm"

\* prefix(user): "user:" for htpasswd, "user:realm:" for htdigest.
Prefix(fl, user) ==
    IF fl = "htpasswd" THEN [user |-> user, realm |-> None]
    ELSE [user |-> user, realm |-> htdigest_realm]

\* line.startswith(prefix): "user:" matches any line of that user (also a
\* "user:realm:hash" line); "user:realm:" needs the realm as well.
StartsWith(line, prefix) ==
    /\ line.user = prefix.user
    /\ (prefix.realm # None => line.realm = prefix.realm)

\* userline(user, password), without terminator.
UserLine(fl, user, password) ==
    IF fl = "htpasswd"
    THEN [user |-> user, realm |-> None, hash |-> mkhtpasswd(password)]
    ELSE [user |-> user, realm |-> htdigest_realm,
          hash |-> htdigest(user, htdigest_realm, password)]

\* _check_userline(user, password, suffix); suffix is what follows the prefix.
\* For htpasswd the suffix of a "user:realm:hash" line is "realm:hash", which
\* is no hash of any password.
CheckUserLine(fl, user, password, line) ==
    IF fl = "htpasswd"
    THEN line.realm = None /\ line.hash = htpasswd(password, line.hash)
    ELSE line.hash = htdigest(user, htdigest_realm, password)

\* _get_users(filename): the users of the lines, in file order.
RECURSIVE GetUsersOf(_, _)
GetUsersOf(fl, lines) ==
    IF lines = <<>> THEN <<>>
    ELSE LET line == Head(lines)
             rest == GetUsersOf(fl, Tail(lines))
             listed == IF fl = "htpasswd" THEN TRUE
                       ELSE line.realm = htdigest_realm
         IN  IF listed THEN <<Utf8Decode(line.user)>> \o rest ELSE rest

\* get_users(): [] when the file does not exist.
FileGetUsers(fl, file) ==
    IF ~file.exists THEN <<>> ELSE GetUsersOf(fl, file.lines)

\* has_user(user)
FileHasUser(fl, file, user) == user \in Range(FileGetUsers(fl, file))

\* check_password(user, password): False when the file does not exist, the
\* verdict on the first line that starts with the prefix, None without one.
RECURSIVE CheckLines(_, _, _, _)
CheckLines(fl, lines, user, password) ==
    IF lines = <<>> THEN None
    ELSE IF StartsWith(Head(lines), Prefix(fl, user))
         THEN Py(CheckUserLine(fl, user, password, Head(lines)))
         ELSE CheckLines(fl, Tail(lines), user, password)

FileCheckPassword(fl, file, user, password) ==
    IF ~file.exists THEN PyFalse
    ELSE CheckLines(fl, file.lines, Utf8Encode(user), Utf8Encode(password))

\* The end-of-line style _update_file predicts from the last line.
DetectEol(lines, linesep) ==
    IF lines # <<>> /\ linesep # "LF"
       /\ lines[Len(lines)].eol = "CRLF" /\ linesep = "CRLF"
    THEN "CRLF" ELSE "LF"

\* line.endswith(eol), for eol "\n" ("LF") or "\r\n" ("CRLF"): a line that
\* ends with "\r\n" ends with "\n" too.
EndsWith(line, eol) ==
    IF eol = "LF" THEN line.eol \in {"LF", "CRLF"} ELSE line.eol = "CRLF"

\* Mutant: the line is taken over as it is.
RstripPlus_AsIs(line, eol) == line

\* line.rstrip('\r\n') + eol
RstripPlus(line, eol) == [line EXCEPT !.eol = eol]

\* One pass of the loop `for line in lines` of _update_file.
\* acc = [new_lines, matched].
\* Mutant: the overwrite flag is ignored.
UpdateLineAlwaysOverwrite(acc, line, prefix, userline, overwrite, eol) ==
    IF StartsWith(line, prefix)
    THEN [new_lines |->
            IF ~acc.matched /\ userline # NoLine
            THEN Append(acc.new_lines,
                        [user |-> userline.user, realm |-> userline.realm,
                         hash |-> userline.hash, eol |-> eol])
            ELSE acc.new_lines,
          matched |-> TRUE]
    ELSE [acc EXCEPT !.new_lines = Append(@, RstripPlus(line, eol))]

\* Mutant: every line that starts with the prefix is rewritten, not only
\* the first one.
UpdateLineEveryMatch(acc, line, prefix, userline, overwrite, eol) ==
    IF StartsWith(line, prefix)
    THEN [new_lines |->
            IF userline # NoLine
            THEN Append(acc.new_lines,
                        IF overwrite
                        THEN [user |-> userline.user, realm |-> userline.realm,
                              hash |-> userline.hash, eol |-> eol]
                        ELSE RstripPlus(line, eol))
            ELSE acc.new_lines,
          matched |-> TRUE]
    ELSE [acc EXCEPT !.new_lines = Append(@, RstripPlus(line, eol))]

UpdateLine(acc, line, prefix, userline, overwrite, eol) ==
    IF StartsWith(line, prefix)
    THEN [new_lines |->
            IF ~acc.matched /\ userline # NoLine
            THEN Append(acc.new_lines,
                        IF overwrite
                        THEN [user |-> userline.user, realm |-> userline.realm,
                              hash |-> userline.hash, eol |-> eol]
                        ELSE RstripPlus(line, eol))
            ELSE acc.new_lines,
          matched |-> TRUE]
    ELSE IF EndsWith(line, eol) /\ ~(eol = "LF" /\ EndsWith(line, "CRLF"))
         THEN [acc EXCEPT !.new_lines = Append(@, line)]
         ELSE [acc EXCEPT !.new_lines = Append(@, RstripPlus(line, eol))]

RECURSIVE UpdateLoop(_, _, _, _, _, _)
UpdateLoop(acc, lines, prefix, userline, overwrite, eol) ==
    IF lines = <<>> THEN acc
    ELSE UpdateLoop(UpdateLine(acc, Head(lines), prefix, userline, overwrite, eol),
                    Tail(lines), prefix, userline, overwrite, eol)

\* _update_file(prefix, userline, overwrite): the lines written back and
\* the value returned (matched).  userline = None deletes.
\* Mutant: the userline is appended also when a line was matched.
UpdateFileAlwaysAppend(file, linesep, prefix, userline, overwrite) ==
    LET lines == IF file.exists THEN file.lines ELSE <<>>
        eol   == DetectEol(lines, linesep)
        acc   == UpdateLoop([new_lines |-> <<>>, matched |-> FALSE],
                            lines, prefix, userline, overwrite, eol)
    IN  IF userline # NoLine
        THEN [acc EXCEPT !.new_lines =
                Append(@, [user |-> userline.user, realm |-> userline.realm,
                           hash |-> userline.hash, eol |-> eol])]
        ELSE acc

UpdateFile(file, linesep, prefix, userline, overwrite) ==
    LET lines == IF file.exists THEN file.lines ELSE <<>>
        eol   == DetectEol(lines, linesep)
        acc   == UpdateLoop([new_lines |-> <<>>, matched |-> FALSE],
                            lines, prefix, userline, overwrite, eol)
    IN  IF ~acc.matched /\ userline # NoLine
        THEN [acc EXCEPT !.new_lines =
                Append(@, [user |-> userline.user, realm |-> userline.realm,
                           hash |-> userline.hash, eol |-> eol])]
        ELSE acc

\* set_password(user, password, old_password, overwrite) of a file store:
\* [file, result]; result is `not matched`.
FileSetPassword(fl, file, linesep, user, password, overwrite) ==
    LET u   == Utf8Encode(user)
        upd == UpdateFile(file, linesep, Prefix(fl, u),
                          UserLine(fl, u, Utf8Encode(password)), overwrite)
    IN  [file |-> File(upd.new_lines), result |-> Py(~upd.matched)]

\* delete_user(user) of a file store: [file, result]; result is `matched`.
FileDeleteUser(fl, file, linesep, user) ==
    LET upd == UpdateFile(file, linesep, Prefix(fl, Utf8Encode(user)),
                          NoLine, TRUE)
    IN  [file |-> File(upd.new_lines), result |-> Py(upd.matched)]

(***************************************************************************)
(* SessionStore (db.py): the password hash is the session_attribute row    *)
(* (sid, authenticated=1, name='password').                                *)
(***************************************************************************)
\* No row of that key in a table.
NoRow == "NoRow"

\* Cookies of table auth_cookie, actions of table permission.
CookieIds == {"c1", "c2"}
Actions == {"WIKI_ADMIN"}

\* Attribute names the model uses.
AttrNames == {"password", "name", "email", "password_refreshed"}

\* self.key
SessionKey == "password"

EmptyAttrs(U) == [k \in U \X AttrNames |-> None]

\* hash_method.generate_hash(user, password)
GenerateHash(method, user, password) ==
    IF method = "HtDigestHashMethod"
    THEN htdigest(user, htdigest_realm, password)
    ELSE mkhtpasswd(password)

\* hash_method.check_hash(user, password, hash)
CheckHash(method, user, password, hash) ==
    IF method = "HtDigestHashMethod"
    THEN hash = htdigest(user, htdigest_realm, password)
    ELSE hash = htpasswd(password, hash)

\* get_users(): SELECT DISTINCT sid ... WHERE authenticated=1 AND name=key
SessionGetUsers(sa) ==
    {k[1] : k \in {x \in DOMAIN sa : x[2] = SessionKey /\ sa[x] # None}}

\* has_user(user)
SessionHasUser(sa, user) ==
    <<user, SessionKey>> \in DOMAIN sa /\ sa[<<user, SessionKey>>] # None

\* Mutant: no UPDATE, the hash is written only when there is no row yet.
SessionSetPassword_InsertOnly(method, sa, user, password, overwrite) ==
    LET hash_   == GenerateHash(method, user, password)
        k       == <<user, SessionKey>>
        exists  == sa[k] # None
    IN  [sa     |-> IF ~exists THEN [sa EXCEPT ![k] = hash_] ELSE sa,
         result |-> Py(~exists)]

\* set_password(user, password, old_password, overwrite): [sa, result].
\* UPDATE when overwrite, then INSERT unless a row exists; returns not exists.
SessionSetPassword(method, sa, user, password, overwrite) ==
    LET hash_   == GenerateHash(method, user, password)
        k       == <<user, SessionKey>>
        updated == IF overwrite /\ sa[k] # None
                   THEN [sa EXCEPT ![k] = hash_] ELSE sa
        exists  == updated[k] # None
    IN  [sa     |-> IF ~exists THEN [updated EXCEPT ![k] = hash_] ELSE updated,
         result |-> Py(~exists)]

\* check_password(user, password): None without a row.
SessionCheckPassword(method, sa, user, password) ==
    IF SessionHasUser(sa, user)
    THEN Py(CheckHash(method, user, password, sa[<<user, SessionKey>>]))
    ELSE None

\* delete_user(user): [sa, result]; returns exists.
SessionDeleteUser(sa, user) ==
    LET k == <<user, SessionKey>>
        exists == sa[k] # None
    IN  [sa |-> IF exists THEN [sa EXCEPT ![k] = None] ELSE sa,
         result |-> Py(exists)]

(***************************************************************************)
(* The outcome of a call, kept in `last`.                                  *)
(***************************************************************************)
\* raised: None, or the kind of the exception that left the call;
\* notified: the change listener methods called, in order;
\* consulted: how many stores check_password asked.
Call(op, user, password, overwrite, result, raised, notified, consulted) ==
    [op |-> op, user |-> user, password |-> password, overwrite |-> overwrite,
     result |-> result, raised |-> raised, notified |-> notified,
     consulted |-> consulted]

NoCall == Call("none", None, None, None, None, None, <<>>, 0)

\* Tables with a column that holds a user id and nothing else the model
\* needs: attachment.author, component.owner, report.author,
\* revision.author, wiki.author.
AuthoredTables == {"attachment", "component", "report", "revision", "wiki"}

\* Tickets of the environment.
TicketIds == {1}

\* An environment without tickets, wiki pages and the like, on SQLite.
NoTracData ==
    /\ authored = [t \in AuthoredTables |-> [u \in Users |-> 0]]
    /\ ticket = [i \in TicketIds |-> [owner |-> None, reporter |-> None,
                                       cc |-> <<>>]]
    /\ ticket_change = {}
    /\ changer_table = "ticket"
    /\ dbtype = "sqlite"

(***************************************************************************)
(* SpecStore: one IPasswordStore on its own, called one call at a time     *)
(* (the unit tests of tests/htfile.py and tests/db.py).                    *)
(***************************************************************************)
FileStores == {"HtPasswdStore", "HtDigestStore"}

\* The flavor of a file store.
Flavor(st) == IF st = "HtPasswdStore" THEN "htpasswd" ELSE "htdigest"

\* The accounts (user, password) the lines of a password file may hold at
\* the start, and those of another realm in a htdigest file.
InitAccounts == {<<"a", "p1">>, <<"a", "p2">>, <<"b", "p1">>}
InitOtherRealmAccounts == {<<"a", "p1">>}

\* The lines a password file of the flavor may hold at the start.
InitLines(fl, eols) ==
    IF fl = "htpasswd"
    THEN {[user |-> Utf8Encode(a[1]), realm |-> None,
           hash |-> mkhtpasswd(Utf8Encode(a[2])), eol |-> e]
          : a \in InitAccounts, e \in eols}
    ELSE {[user |-> Utf8Encode(a[1]), realm |-> htdigest_realm,
           hash |-> htdigest(Utf8Encode(a[1]), htdigest_realm,
                             Utf8Encode(a[2])),
           eol |-> e] : a \in InitAccounts, e \in eols}
         \cup
         {[user |-> Utf8Encode(a[1]), realm |-> OtherRealm,
           hash |-> htdigest(Utf8Encode(a[1]), OtherRealm, Utf8Encode(a[2])),
           eol |-> e] : a \in InitOtherRealmAccounts, e \in eols}

\* The files: every line but the last ends with "\n" or "\r\n".
InitFiles(fl) ==
    {File(f) : f \in
        {g \in SeqsUpTo(InitLines(fl, {"LF", "CRLF", "NONE"}), MaxInitLines) :
            \A i \in 1..(Len(g) - 1) : g[i].eol # "NONE"}}

\* session_attribute tables that hold password rows only.
InitPasswordRows(method) ==
    {[k \in Users \X AttrNames |->
        IF k[2] = SessionKey /\ h[k[1]] # None
        THEN GenerateHash(method, k[1], h[k[1]]) ELSE None]
     : h \in [Users -> Passwords \cup {None}]}

StoreGetUsers(st, file, sa) ==
    IF st = "SessionStore" THEN SessionGetUsers(sa)
    ELSE Range(FileGetUsers(Flavor(st), file))

StoreHasUser(st, file, sa, user) ==
    IF st = "SessionStore" THEN SessionHasUser(sa, user)
    ELSE FileHasUser(Flavor(st), file, user)

StoreCheckPassword(st, file, sa, user, password) ==
    IF st = "SessionStore"
    THEN SessionCheckPassword(hash_method, sa, user, password)
    ELSE FileCheckPassword(Flavor(st), file, user, password)

InitStore ==
    /\ store \in FileStores \cup {"SessionStore"}
    /\ IF store \in FileStores
       THEN /\ os_linesep \in {"LF", "CRLF"}
            /\ hash_method = "HtDigestHashMethod"
            /\ passwordFile \in {NoFile} \cup InitFiles(Flavor(store))
            /\ session_attribute = EmptyAttrs(Users)
       ELSE /\ os_linesep = "LF"
            /\ hash_method \in {"HtDigestHashMethod", "HtPasswdHashMethod"}
            /\ passwordFile = NoFile
            /\ session_attribute \in InitPasswordRows(hash_method)
    /\ fromEmpty = (StoreGetUsers(store, passwordFile, session_attribute) = {}
                    /\ passwordFile.lines = <<>>)
    /\ liveUsers = {}
    /\ password_stores = <<store>>
    /\ refresh_passwd = FALSE
    /\ radius_up = FALSE
    /\ ignore_auth_case = FALSE
    /\ svn_users = [u \in Users |-> None]
    /\ session = [u \in Users |-> NoRow]
    /\ auth_cookie = [c \in CookieIds |-> NoRow]
    /\ permission = {}
    /\ NoTracData
    /\ writers = <<>>
    /\ last = NoCall

\* The outcome of a call that rewrites the password file, with the line
\* terminators the file had before the call.
FileCall(call) ==
    call @@ [eols |-> {passwordFile.lines[i].eol :
                          i \in DOMAIN passwordFile.lines}]

\* store.set_password(user, password, overwrite=overwrite)
StoreSetPassword(user, password, overwrite) ==
    /\ IF store = "SessionStore"
       THEN LET r == SessionSetPassword(hash_method, session_attribute,
                                        user, password, overwrite)
            IN  /\ session_attribute' = r.sa
                /\ passwordFile' = passwordFile
                /\ last' = Call("set_password", user, password, Py(overwrite),
                                r.result, None, <<>>, 0)
       ELSE LET r == FileSetPassword(Flavor(store), passwordFile, os_linesep,
                                     user, password, overwrite)
            IN  /\ passwordFile' = r.file
                /\ session_attribute' = session_attribute
                /\ last' = FileCall(Call("set_password", user, password,
                                         Py(overwrite), r.result, None,
                                         <<>>, 0))
    /\ liveUsers' = liveUsers \cup {user}
    /\ UNCHANGED <<store, fromEmpty, chainCfg, platform, inProgress,
                   auxTables, otherStorage, renameVars>>

\* store.delete_user(user)
StoreDeleteUser(user) ==
    /\ IF store = "SessionStore"
       THEN LET r == SessionDeleteUser(session_attribute, user)
            IN  /\ session_attribute' = r.sa
                /\ passwordFile' = passwordFile
                /\ last' = Call("delete_user", user, None, None,
                                r.result, None, <<>>, 0)
       ELSE LET r == FileDeleteUser(Flavor(store), passwordFile, os_linesep,
                                    user)
            IN  /\ passwordFile' = r.file
                /\ session_attribute' = session_attribute
                /\ last' = FileCall(Call("delete_user", user, None, None,
                                         r.result, None, <<>>, 0))
    /\ liveUsers' = liveUsers \ {user}
    /\ UNCHANGED <<store, fromEmpty, chainCfg, platform, inProgress,
                   auxTables, otherStorage, renameVars>>

\* store.check_password(user, password)
StoreCheck(user, password) ==
    /\ last' = Call("check_password", user, password, None,
                    StoreCheckPassword(store, passwordFile, session_attribute,
                                       user, password),
                    None, <<>>, 0)
    /\ UNCHANGED <<storeVars, chainCfg, platform, inProgress, auxTables,
                   otherStorage, renameVars, passwordFile, session_attribute>>

NextStore ==
    \/ \E u \in Users, p \in Passwords, o \in BOOLEAN : StoreSetPassword(u, p, o)
    \/ \E u \in Users : StoreDeleteUser(u)
    \/ \E u \in Users, p \in Passwords : StoreCheck(u, p)

SpecStore == InitStore /\ [][NextStore]_vars

(***************************************************************************)
(* Claims about one store (SpecStore).                                     *)
(***************************************************************************)
\* The text of a line without its terminator.
Content(line) == [user |-> line.user, realm |-> line.realm, hash |-> line.hash]

Contents(lines) == [i \in DOMAIN lines |-> Content(lines[i])]

\* Index of the first line that starts with the prefix, 0 if there is none.
FirstMatch(lines, prefix) ==
    IF \E i \in DOMAIN lines : StartsWith(lines[i], prefix)
    THEN CHOOSE i \in DOMAIN lines :
            /\ StartsWith(lines[i], prefix)
            /\ \A j \in 1..(i - 1) : ~StartsWith(lines[j], prefix)
    ELSE 0

\* lines without line i (all of them for i = 0).
RemoveAt(lines, i) ==
    [j \in 1..(Len(lines) - (IF i = 0 THEN 0 ELSE 1)) |->
        IF i = 0 \/ j < i THEN lines[j] ELSE lines[j + 1]]

\* lines without the lines after the first match that start with the prefix.
RECURSIVE WithoutLaterMatches(_, _, _)
WithoutLaterMatches(lines, prefix, seen) ==
    IF lines = <<>> THEN <<>>
    ELSE IF StartsWith(Head(lines), prefix)
         THEN (IF seen THEN <<>> ELSE <<Head(lines)>>)
              \o WithoutLaterMatches(Tail(lines), prefix, TRUE)
         ELSE <<Head(lines)>> \o WithoutLaterMatches(Tail(lines), prefix, seen)

\* What `kept` (the lines of the file that the call is to keep) becomes by
\* a set_password or delete_user call that wrote `new`: the first match is
\* replaced, kept or dropped, a record without a match is appended, and
\* every other line keeps its place and its content.
RewrittenAs(kept, new, op, prefix, userline, overwrite) ==
    LET i == FirstMatch(kept, prefix)
    IN  IF op = "delete_user"
        THEN Contents(new) = Contents(RemoveAt(kept, i))
        ELSE IF i = 0
             THEN /\ Len(new) = Len(kept) + 1
                  /\ Contents(SubSeq(new, 1, Len(kept))) = Contents(kept)
                  /\ Content(new[Len(new)]) = userline
             ELSE /\ Len(new) = Len(kept)
                  /\ \A j \in DOMAIN kept :
                        Content(new[j]) =
                          IF j = i /\ overwrite THEN userline
                          ELSE Content(kept[j])

\* The step is a set_password or delete_user call of a file store.
IsFileWrite == store \in FileStores /\ last'.op \in {"set_password", "delete_user"}

LastPrefix == Prefix(Flavor(store), Utf8Encode(last'.user))

LastUserLine ==
    IF last'.op = "set_password"
    THEN UserLine(Flavor(store), Utf8Encode(last'.user),
                  Utf8Encode(last'.password))
    ELSE NoLine

\* C4: set_password(uid, pw2, overwrite=False) on a uid the store has
\* returns False and leaves the credential as it is (check_password answers
\* for every password as before, so the original password still verifies);
\* on a uid the store does not have it creates the account, returns True.
C4_OverwriteFalseKeepsCredential ==
    [][(last'.op = "set_password" /\ last'.overwrite = PyFalse) =>
        IF StoreHasUser(store, passwordFile, session_attribute, last'.user)
        THEN /\ last'.result = PyFalse
             /\ \A p \in Passwords :
                   StoreCheckPassword(store, passwordFile', session_attribute',
                                      last'.user, p)
                   = StoreCheckPassword(store, passwordFile, session_attribute,
                                        last'.user, p)
        ELSE /\ last'.result = PyTrue
             /\ StoreHasUser(store, passwordFile', session_attribute',
                             last'.user)
             /\ StoreCheckPassword(store, passwordFile', session_attribute',
                                   last'.user, last'.password) = PyTrue]_vars

\* C4 witness: an overwrite=False call found the account and returned False
\* while another password than the one passed verifies.
C4_Witness ==
    /\ last.op = "set_password" /\ last.overwrite = PyFalse
    /\ last.result = PyFalse
    /\ \E p \in Passwords \ {last.password} :
          StoreCheckPassword(store, passwordFile, session_attribute,
                             last.user, p) = PyTrue

\* C9 as claimed: _update_file replaces, keeps or drops the first matching
\* line only, and keeps every other line of the file, further lines with
\* the same prefix included, in order and with its content.
C9_Original_EveryOtherLineKept ==
    [][IsFileWrite =>
        RewrittenAs(passwordFile.lines, passwordFile'.lines, last'.op,
                    LastPrefix, LastUserLine, last'.overwrite = PyTrue)]_vars

\* C9 amended: the first matching line is replaced, kept or dropped, every
\* further line with the same prefix is dropped, and every line with
\* another prefix is kept in order with its content; a record without a
\* match is appended as the last line.
C9_OtherPrefixLinesKept ==
    [][IsFileWrite =>
        RewrittenAs(WithoutLaterMatches(passwordFile.lines, LastPrefix, FALSE),
                    passwordFile'.lines, last'.op,
                    LastPrefix, LastUserLine, last'.overwrite = PyTrue)]_vars

\* C9 witness: a call rewrote a file of at least two lines, one of them of
\* another account, and the store still has both accounts.
C9_Witness ==
    /\ store \in FileStores /\ last.op = "set_password" /\ last.result = PyFalse
    /\ Len(passwordFile.lines) >= 2
    /\ \E i \in DOMAIN passwordFile.lines :
          ~StartsWith(passwordFile.lines[i],
                      Prefix(Flavor(store), Utf8Encode(last.user)))

\* C10: from an empty password file, get_users() lists exactly the users
\* set and not deleted since, each once.
C10_UsersAreThoseSetAndNotDeleted ==
    (fromEmpty /\ store \in FileStores) =>
        LET users == FileGetUsers(Flavor(store), passwordFile)
        IN  /\ Range(users) = liveUsers
            /\ Len(users) = Cardinality(liveUsers)

\* C10 witness: two users were written and one of them deleted again.
C10_Witness ==
    /\ fromEmpty /\ store \in FileStores
    /\ last.op = "delete_user" /\ last.result = PyTrue
    /\ Cardinality(liveUsers) = 1
    /\ Len(FileGetUsers(Flavor(store), passwordFile)) = 1


\* C21: after set_password(uid, pw) check_password(uid, pw) is True, and
\* check_password(uid, p) is False for every other password p: so after a
\* further set_password(uid, pw2) the first password verifies no longer and
\* pw2 does.
C21_SetThenCheck ==
    [][(last'.op = "set_password" /\ last'.overwrite = PyTrue) =>
        \A p \in Passwords :
            StoreCheckPassword(store, passwordFile', session_attribute',
                               last'.user, p)
            = Py(p = last'.password)]_vars

\* C21 witness: in a store that was empty at the start, a set_password call
\* updated an account made by an earlier one; its password verifies and
\* another one does not.
C21_Witness ==
    /\ fromEmpty
    /\ last.op = "set_password" /\ last.overwrite = PyTrue
    /\ last.result = PyFalse
    /\ StoreCheckPassword(store, passwordFile, session_attribute,
                          last.user, last.password) = PyTrue
    /\ \E p \in Passwords \ {last.password} :
          StoreCheckPassword(store, passwordFile, session_attribute,
                             last.user, p) = PyFalse

\* A line of the password file starts with the prefix of the user.
LineFound(fl, file, user) ==
    /\ file.exists
    /\ \E i \in DOMAIN file.lines :
          StartsWith(file.lines[i], Prefix(fl, Utf8Encode(user)))

\* C23: check_password of a file store returns None when the password file
\* does not exist and when no line matches the uid; it returns False only
\* when a line of the uid was found and the password does not match it.
C23_NoneWithoutFileOrLine ==
    (store \in FileStores /\ last.op = "check_password") =>
        IF LineFound(Flavor(store), passwordFile, last.user)
        THEN last.result \in {PyTrue, PyFalse}
        ELSE last.result = None

\* C24: after a set_password or delete_user call of a file store, whatever
\* mix of "\n", "\r\n" and no terminator the lines had, every line of the
\* rewritten file, the last one included, ends with one and the same
\* end-of-line sequence.
C24_UniformEol ==
    [][IsFileWrite =>
        \E eol \in {"LF", "CRLF"} :
            \A i \in DOMAIN passwordFile'.lines :
                passwordFile'.lines[i].eol = eol]_vars

\* C24 witness: a call rewrote a file whose lines ended in more than one
\* way, the last one without terminator, and left at least two lines.
C24_Witness ==
    /\ store \in FileStores /\ last.op \in {"set_password", "delete_user"}
    /\ Cardinality(last.eols) >= 2 /\ "NONE" \in last.eols
    /\ Len(passwordFile.lines) >= 2
    /\ \A i \in DOMAIN passwordFile.lines :
          passwordFile.lines[i].eol = passwordFile.lines[1].eol

(***************************************************************************)
(* _update_file step by step (htfile.py:93-170): the calls of several      *)
(* processes on one password file, and a process that stops half way.      *)
(*                                                                         *)
(* The read phase reads the whole file and computes new_lines.  The write  *)
(* phase opens the file with mode 'w', which truncates it, passes          *)
(* new_lines to the buffered file object and closes it.  Each process      *)
(* writes at its own file offset, which starts at 0.                       *)
(***************************************************************************)
Processes == {"w1", "w2"}

\* The locals of a process that has not called _update_file.
Idle ==
    [pc |-> "idle", prefix |-> [user |-> None, realm |-> None],
     userline |-> NoLine, overwrite |-> FALSE, lines |-> <<>>,
     new_lines |-> <<>>, matched |-> FALSE, flushed |-> 0, readAt |-> "idle"]

\* The other calls at the time of the read: none has opened the file for
\* writing ("before"), all have returned ("after"), or one is in its write
\* phase ("during").
ReadAt(w) ==
    IF \A o \in DOMAIN writers \ {w} : writers[o].pc \in {"idle", "read"}
    THEN "before"
    ELSE IF \A o \in DOMAIN writers \ {w} : writers[o].pc = "closed"
         THEN "after" ELSE "during"

\* The bytes `new` written from offset 0 over a file that holds `old`, for
\* lines of one length: what lies behind the written bytes stays.
Overlay(old, new) == new \o SubSeq(old, Len(new) + 1, Len(old))

\* Lines 93-150: read the lines, build new_lines.
ReadPhase(w, prefix, userline, overwrite) ==
    /\ writers[w].pc = "idle"
    /\ LET upd == UpdateFile(passwordFile, os_linesep, prefix, userline,
                             overwrite)
       IN  writers' = [writers EXCEPT ![w] =
              [pc |-> "read", prefix |-> prefix, userline |-> userline,
               overwrite |-> overwrite,
               lines |-> IF passwordFile.exists THEN passwordFile.lines
                         ELSE <<>>,
               new_lines |-> upd.new_lines, matched |-> upd.matched,
               flushed |-> 0, readAt |-> ReadAt(w)]]
    /\ UNCHANGED <<storeVars, chainCfg, platform, auxTables, otherStorage,
                   renameVars, passwordFile, session_attribute, last>>

\* Line 154: open(filename, 'w') creates the file or truncates it.
OpenForWrite(w) ==
    /\ writers[w].pc = "read"
    /\ writers' = [writers EXCEPT ![w].pc = "open"]
    /\ passwordFile' = File(<<>>)
    /\ UNCHANGED <<storeVars, chainCfg, platform, auxTables, otherStorage,
                   renameVars, session_attribute, last>>

\* Line 155: f.writelines(new_lines) fills the buffer of the file object;
\* a full buffer is written out, wherever in new_lines that happens: after
\* n complete lines, or inside line n + 1, of which the file then holds the
\* head only (eol "TORN").
Flush(w, n, inside) ==
    /\ writers[w].pc = "open"
    /\ writers[w].flushed <= n /\ n < Len(writers[w].new_lines)
    /\ inside \/ n > writers[w].flushed
    /\ writers' = [writers EXCEPT ![w].flushed = n]
    /\ passwordFile' =
          File(SubSeq(writers[w].new_lines, 1, n)
               \o IF inside THEN <<[writers[w].new_lines[n + 1] EXCEPT !.eol = "TORN"]>>
                  ELSE <<>>)
    /\ UNCHANGED <<storeVars, chainCfg, platform, auxTables, otherStorage,
                   renameVars, session_attribute, last>>

\* Lines 154-170: leaving the `with` block closes the file, which writes
\* out the rest of the buffer; _update_file returns matched.
Close(w) ==
    /\ writers[w].pc = "open"
    /\ writers' = [writers EXCEPT ![w].pc = "closed"]
    /\ passwordFile' = File(Overlay(passwordFile.lines, writers[w].new_lines))
    /\ UNCHANGED <<storeVars, chainCfg, platform, auxTables, otherStorage,
                   renameVars, session_attribute, last>>

\* The process stops inside the write phase: what is in its buffer is lost.
Crash(w) ==
    /\ writers[w].pc = "open"
    /\ writers' = [writers EXCEPT ![w].pc = "crashed"]
    /\ UNCHANGED <<storeVars, chainCfg, platform, auxTables, otherStorage,
                   renameVars, passwordFile, session_attribute, last>>

\* The calls of set_password and delete_user: prefix, userline, overwrite.
UpdateCalls(fl) ==
    {<<Prefix(fl, Utf8Encode(u)), UserLine(fl, Utf8Encode(u), Utf8Encode(p)), o>>
        : u \in Users, p \in {"p2"}, o \in BOOLEAN}
    \cup {<<Prefix(fl, Utf8Encode(u)), NoLine, TRUE>> : u \in Users}

\* Everything but the password file and the calls in progress.
InitFileOnly ==
    /\ store \in FileStores
    /\ hash_method = "HtDigestHashMethod"
    /\ session_attribute = EmptyAttrs(Users)
    /\ fromEmpty = FALSE
    /\ liveUsers = {}
    /\ password_stores = <<store>>
    /\ refresh_passwd = FALSE
    /\ radius_up = FALSE
    /\ ignore_auth_case = FALSE
    /\ svn_users = [u \in Users |-> None]
    /\ session = [u \in Users |-> NoRow]
    /\ auth_cookie = [c \in CookieIds |-> NoRow]
    /\ permission = {}
    /\ NoTracData
    /\ last = NoCall

(***************************************************************************)
(* SpecWriters: two processes call _update_file once each on a file whose  *)
(* lines have one length (one realm, "\n" terminated, as _update_file      *)
(* writes them) and which is shorter than the buffer of the file object,   *)
(* so that a process writes its new_lines in one piece when it closes.     *)
(***************************************************************************)
InitWriters ==
    /\ InitFileOnly
    /\ os_linesep = "LF"
    /\ passwordFile \in
          {NoFile} \cup
          {File(f) : f \in
              SeqsUpTo({l \in InitLines(Flavor(store), {"LF"}) :
                            l.realm # OtherRealm}, MaxInitLines)}
    /\ writers = [w \in Processes |-> Idle]

NextWriters ==
    \E w \in Processes :
        \/ \E c \in UpdateCalls(Flavor(store)) : ReadPhase(w, c[1], c[2], c[3])
        \/ OpenForWrite(w)
        \/ Close(w)

SpecWriters == InitWriters /\ [][NextWriters]_vars

(***************************************************************************)
(* SpecCrash: one process calls _update_file on a file longer than the     *)
(* buffer of the file object, and may stop inside the write phase.         *)
(***************************************************************************)
InitCrash ==
    /\ InitFileOnly
    /\ os_linesep \in {"LF", "CRLF"}
    /\ passwordFile \in {NoFile} \cup InitFiles(Flavor(store))
    /\ writers = [w \in {"w1"} |-> Idle]

NextCrash ==
    \/ \E c \in UpdateCalls(Flavor(store)) : ReadPhase("w1", c[1], c[2], c[3])
    \/ OpenForWrite("w1")
    \/ \E n \in 0..(MaxInitLines + 1), inside \in BOOLEAN : Flush("w1", n, inside)
    \/ Close("w1")
    \/ Crash("w1")

SpecCrash == InitCrash /\ [][NextCrash]_vars

(***************************************************************************)
(* Claims about concurrent and interrupted calls of _update_file.          *)
(***************************************************************************)
\* The call of process w returns now, after the call of process o did.
ReturnsAfter(w, o) ==
    /\ w # o
    /\ writers[w].pc = "open" /\ writers'[w].pc = "closed"
    /\ writers[o].pc = "closed"

\* The lines _update_file makes of the lines `lines` for the call of w.
RewriteOf(w, lines) ==
    UpdateFile(File(lines), os_linesep, writers[w].prefix,
               writers[w].userline, writers[w].overwrite).new_lines

\* C11: _update_file takes no lock.  When both of two writers read before
\* either writes, the file ends up as the later writer's rewrite of the
\* content that writer read (the update of the earlier writer is lost);
\* when the calls do not interleave, the file ends up as the rewrite of
\* what the earlier call left, so no update is lost.
C11_LaterWriterWins ==
    [][\A w \in DOMAIN writers, o \in DOMAIN writers :
         ReturnsAfter(w, o) =>
            /\ (writers[w].readAt = "before" /\ writers[o].readAt = "before")
                  => passwordFile'.lines = RewriteOf(w, writers[w].lines)
            /\ writers[w].readAt = "after"
                  => passwordFile'.lines = RewriteOf(w, writers[o].new_lines)
      ]_vars

\* C12: the write phase of _update_file cannot leave a record line
\* half-written: at every step of it, and when the process stops inside
\* it, every line of the file is a complete line of the lines read or of
\* new_lines.
C12_NoHalfWrittenLine ==
    \A w \in DOMAIN writers :
        writers[w].pc \in {"open", "crashed"} =>
            \A i \in DOMAIN passwordFile.lines :
                passwordFile.lines[i] \in
                    Range(writers[w].lines) \cup Range(writers[w].new_lines)

\* ------------------------------------------------------------------
\* AccountManager over a chain of password stores (api.py).
\* ------------------------------------------------------------------

\* Kinds of IPasswordStore.  ReadOnlyStore is an implementation of the
\* interface that lists its users and has neither set_password nor
\* delete_user (a directory the plugin cannot write to).
StoreKinds == {"SessionStore", "HtPasswdStore", "SvnServePasswordStore",
               "RadiusAuthStore", "ReadOnlyStore"}

\* Accounts the remote servers and the read-only directory hold.
RadiusAccounts == {<<"a", "p1">>}
ReadOnlyAccounts == {<<"a", "p1">>}

\* hasattr(store, 'set_password'), hasattr(store, 'delete_user')
HasAttr(kind, operation) ==
    CASE operation = "set_password" ->
            kind \in {"SessionStore", "SvnServePasswordStore"} \cup FileStores
      [] operation = "delete_user" ->
            kind \in {"SessionStore", "SvnServePasswordStore"} \cup FileStores
      [] OTHER -> TRUE

\* The storage the stores and model.py work on.
World ==
    [passwordFile |-> passwordFile, svn_users |-> svn_users,
     session |-> session, session_attribute |-> session_attribute,
     auth_cookie |-> auth_cookie, permission |-> permission]

\* store.get_users(), as a set
store_get_users(kind, w) ==
    CASE kind = "SessionStore" -> SessionGetUsers(w.session_attribute)
      [] kind \in FileStores ->
            Range(FileGetUsers(Flavor(kind), w.passwordFile))
      [] kind = "SvnServePasswordStore" ->
            {u \in DOMAIN w.svn_users : w.svn_users[u] # None}
      [] kind = "ReadOnlyStore" -> {a[1] : a \in ReadOnlyAccounts}
      [] OTHER -> {}

\* store.has_user(user)
store_has_user(kind, w, user) ==
    CASE kind = "RadiusAuthStore" -> FALSE
      [] OTHER -> user \in store_get_users(kind, w)

\* store.check_password(user, password): PyTrue, PyFalse or None
store_check_password(kind, w, user, password) ==
    CASE kind = "SessionStore" ->
            SessionCheckPassword(hash_method, w.session_attribute,
                                 user, password)
      [] kind \in FileStores ->
            FileCheckPassword(Flavor(kind), w.passwordFile, user, password)
      [] kind = "SvnServePasswordStore" ->
            IF w.svn_users[user] # None
            THEN Py(password = w.svn_users[user])
            ELSE None
      [] kind = "RadiusAuthStore" ->
            IF radius_up
            THEN Py(<<user, password>> \in RadiusAccounts)
            ELSE None
      [] kind = "ReadOnlyStore" ->
            IF user \in {a[1] : a \in ReadOnlyAccounts}
            THEN Py(<<user, password>> \in ReadOnlyAccounts)
            ELSE None

\* store.set_password(user, password, old_password, overwrite) of a store
\* that has the method; SvnServePasswordStore takes no overwrite and
\* returns None.
store_set_password(kind, w, user, password, overwrite) ==
    CASE kind = "SessionStore" ->
            LET r == SessionSetPassword(hash_method, w.session_attribute,
                                        user, password, overwrite)
            IN  [w |-> [w EXCEPT !.session_attribute = r.sa],
                 result |-> r.result]
      [] kind \in FileStores ->
            LET r == FileSetPassword(Flavor(kind), w.passwordFile, os_linesep,
                                     user, password, overwrite)
            IN  [w |-> [w EXCEPT !.passwordFile = r.file],
                 result |-> r.result]
      [] kind = "SvnServePasswordStore" ->
            [w |-> [w EXCEPT !.svn_users[user] = password], result |-> None]

\* store.delete_user(user) of a store that has the method
store_delete_user(kind, w, user) ==
    CASE kind = "SessionStore" ->
            LET r == SessionDeleteUser(w.session_attribute, user)
            IN  [w |-> [w EXCEPT !.session_attribute = r.sa],
                 result |-> r.result]
      [] kind \in FileStores ->
            LET r == FileDeleteUser(Flavor(kind), w.passwordFile, os_linesep,
                                    user)
            IN  [w |-> [w EXCEPT !.passwordFile = r.file],
                 result |-> r.result]
      [] kind = "SvnServePasswordStore" ->
            [w |-> [w EXCEPT !.svn_users[user] = None], result |-> None]

\* The first of the indices S of the chain, 0 if there is none.
FirstIndex(S) ==
    IF S = {} THEN 0 ELSE CHOOSE i \in S : \A j \in S : i <= j

\* AccountManager.handle_username_casing(user) when it never changes the
\* user.
handle_username_casing_Never(user) == user

\* AccountManager.handle_username_casing(user):
\* ignore_auth_case and user.lower() or user
handle_username_casing(user) ==
    IF ignore_auth_case /\ Lower(user) # "" THEN Lower(user) ELSE user

\* AccountManager.find_user_store(user): index in the chain, 0 for None
find_user_store(w, uid) ==
    LET user == handle_username_casing(uid)
    IN  FirstIndex({i \in 1..Len(password_stores) :
                        user \in store_get_users(password_stores[i], w)})

\* AccountManager.get_supporting_store(operation): index, 0 for None
get_supporting_store(operation) ==
    FirstIndex({i \in 1..Len(password_stores) :
                    HasAttr(password_stores[i], operation)})

\* AccountManager.has_user(user)
has_user(w, uid) ==
    LET user == handle_username_casing(uid)
    IN  \E i \in 1..Len(password_stores) :
            store_has_user(password_stores[i], w, user)


\* ---- model.py: rows of the session tables --------------------------

\* prime_auth_session(env, username)
prime_auth_session(w, username) ==
    IF w.session[username] = NoRow
    THEN [w EXCEPT !.session[username] = "0"]
    ELSE w

\* set_user_attribute(env, username, attribute, value)
set_user_attribute(w, username, attribute, value) ==
    [w EXCEPT !.session_attribute[<<username, attribute>>] = value]

\* model.delete_user(env, user) that leaves the permission rows
delete_user_KeepsPermission(w, user) ==
    [w EXCEPT
        !.auth_cookie = [c \in CookieIds |->
                            IF w.auth_cookie[c] = user THEN NoRow
                            ELSE w.auth_cookie[c]],
        !.session_attribute = [k \in DOMAIN w.session_attribute |->
                                  IF k[1] = user THEN None
                                  ELSE w.session_attribute[k]],
        !.session = [u \in DOMAIN w.session |->
                        IF u = user THEN NoRow ELSE w.session[u]]]

\* model.delete_user(env, user)
delete_user(w, user) ==
    [w EXCEPT
        !.auth_cookie = [c \in CookieIds |->
                            IF w.auth_cookie[c] = user THEN NoRow
                            ELSE w.auth_cookie[c]],
        !.session_attribute = [k \in DOMAIN w.session_attribute |->
                                  IF k[1] = user THEN None
                                  ELSE w.session_attribute[k]],
        !.session = [u \in DOMAIN w.session |->
                        IF u = user THEN NoRow ELSE w.session[u]],
        !.permission = {r \in w.permission : r[1] # user}]

\* ---- AccountManager ------------------------------------------------

\* What a call of AccountManager leaves: the storage, the value returned
\* (None when it raised), the exception raised (None when it returned),
\* the notifications sent to the change listeners, in order.
Outcome(w, result, raised, notified) ==
    [w |-> w, result |-> result, raised |-> raised, notified |-> notified]

ErrReadOnly == "TracError: backend does not support setting the password"
ErrExisted == "TracError: password existed, couldn't create"
ErrNoStore == "TracError: no store supports setting the password"
ErrListener == "error raised by a change listener"
ErrDatabase == "database error"
ErrAttribute == "AttributeError"

\* _notify when it catches every exception of a listener.
notify_CatchesAll(listener_raises) == None

\* AccountManager._notify(mod, ...): every listener is called; an
\* exception of a listener other than AttributeError propagates.
notify(listener_raises) ==
    IF listener_raises THEN ErrListener ELSE None

\* The store set_password chooses, when the first writable store is
\* taken whoever owns the user.
set_password_store_FirstWritable(w, user) ==
    [store |-> get_supporting_store("set_password"), raised |-> None]

\* The store set_password chooses: the owner of user, which must have
\* set_password, else the first store that has set_password (0: none).
set_password_store(w, user) ==
    LET owner == find_user_store(w, user)
    IN  IF owner # 0 /\ ~HasAttr(password_stores[owner], "set_password")
        THEN [store |-> owner, raised |-> ErrReadOnly]
        ELSE IF owner = 0
        THEN [store |-> get_supporting_store("set_password"), raised |-> None]
        ELSE [store |-> owner, raised |-> None]

\* The branch on the store's result, when an existing password is
\* changed whatever overwrite says.
set_password_event_IgnoringOverwrite(result, overwrite) ==
    IF result = PyTrue THEN "user_created"
    ELSE "user_password_changed"

\* The branch on the store's result: the notification to send, or the
\* error to raise.
set_password_event(result, overwrite) ==
    IF result = PyTrue THEN "user_created"
    ELSE IF ~overwrite THEN ErrExisted
    ELSE "user_password_changed"

\* AccountManager.set_password(user, password, overwrite=overwrite)
set_password(w, uid, password, overwrite, listener_raises) ==
    LET user == handle_username_casing(uid)
        t == set_password_store(w, user)
    IN  IF t.raised # None THEN Outcome(w, None, t.raised, <<>>)
        ELSE IF t.store = 0 THEN Outcome(w, None, ErrNoStore, <<>>)
        ELSE
          LET kind == password_stores[t.store]
              \* a store of the former signature raises TypeError on
              \* the four-argument call
              r == IF kind = "SvnServePasswordStore"
                   THEN IF overwrite \/ ~store_has_user(kind, w, user)
                        THEN store_set_password(kind, w, user, password, TRUE)
                        ELSE [w |-> w, result |-> None]
                   ELSE store_set_password(kind, w, user, password, overwrite)
              ev == set_password_event(r.result, overwrite)
          IN  IF ev = ErrExisted
              THEN Outcome(r.w, None, ErrExisted, <<>>)
              ELSE IF notify(listener_raises) # None
              THEN Outcome(r.w, None, notify(listener_raises), <<ev>>)
              ELSE Outcome(r.w, r.result, None, <<ev>>)

\* _maybe_update_hash when it does not record the refresh.
maybe_update_hash_NoFlag(w, user, password) ==
    IF w.session_attribute[<<user, "password_refreshed">>] = "1"
    THEN [w |-> w, raised |-> None]
    ELSE
      LET owner == find_user_store(w, user)
          pwstore == get_supporting_store("set_password")
          r == store_set_password(password_stores[pwstore], w, user,
                                  password, TRUE)
      IN  IF r.result = PyTrue /\ owner # 0
          THEN IF HasAttr(password_stores[owner], "delete_user")
               THEN [w |-> store_delete_user(password_stores[owner],
                                             r.w, user).w,
                     raised |-> None]
               ELSE [w |-> r.w, raised |-> ErrAttribute]
          ELSE [w |-> r.w, raised |-> None]

\* AccountManager._maybe_update_hash(user, password), called when a
\* store has set_password
maybe_update_hash(w, user, password) ==
    IF w.session_attribute[<<user, "password_refreshed">>] = "1"
    THEN [w |-> w, raised |-> None]
    ELSE
      LET owner == find_user_store(w, user)
          pwstore == get_supporting_store("set_password")
          r == store_set_password(password_stores[pwstore], w, user,
                                  password, TRUE)
      IN  IF r.result = PyTrue /\ owner # 0
          THEN IF HasAttr(password_stores[owner], "delete_user")
               THEN [w |-> set_user_attribute(
                             store_delete_user(password_stores[owner],
                                               r.w, user).w,
                             user, "password_refreshed", "1"),
                     raised |-> None]
               ELSE [w |-> r.w, raised |-> ErrAttribute]
          ELSE [w |-> set_user_attribute(r.w, user, "password_refreshed",
                                         "1"),
                raised |-> None]

\* The loop of AccountManager.check_password from store i on; valid is
\* the answer of the store before.
RECURSIVE check_from(_, _, _, _, _)
check_from(i, valid, w, user, password) ==
    IF i > Len(password_stores)
    THEN [w |-> w, result |-> valid, raised |-> None, consulted |-> i - 1]
    ELSE
      LET v == store_check_password(password_stores[i], w, user, password)
      IN  IF v = PyTrue
          THEN IF refresh_passwd /\ get_supporting_store("set_password") # 0
               THEN LET r == maybe_update_hash(w, user, password)
                    IN  [w |-> r.w,
                         result |-> IF r.raised = None THEN v ELSE None,
                         raised |-> r.raised, consulted |-> i]
               ELSE [w |-> w, result |-> v, raised |-> None, consulted |-> i]
          ELSE check_from(i + 1, v, w, user, password)

\* check_password when the answer of the first store is final.
check_password_FirstStoreOnly(w, uid, password) ==
    LET user == handle_username_casing(uid) IN
    IF password_stores = <<>>
    THEN [w |-> w, result |-> PyFalse, raised |-> None, consulted |-> 0]
    ELSE [w |-> w,
          result |-> store_check_password(password_stores[1], w, user,
                                          password),
          raised |-> None, consulted |-> 1]

\* AccountManager.check_password(user, password)
check_password(w, uid, password) ==
    check_from(1, PyFalse, w, handle_username_casing(uid), password)

\* AccountManager.delete_user(user)
AccountManager_delete_user(w, uid, listener_raises) ==
    LET user == handle_username_casing(uid)
        owner == find_user_store(w, user)
        w1 == IF owner # 0 /\ HasAttr(password_stores[owner], "delete_user")
              THEN store_delete_user(password_stores[owner], w, user).w
              ELSE w
    IN  Outcome(delete_user(w1, user), None, notify(listener_raises),
                <<"user_deleted">>)

\* The finally clause of _create_user, when it never rolls back.
create_user_finally_NoRollback(w, username) ==
    w

\* The finally clause of _create_user
create_user_finally(w, username) ==
    IF ~has_user(w, username) THEN delete_user(w, username) ELSE w

\* A step of _create_user that writes to the database: it is skipped
\* once an earlier step raised, and leaves nothing when it fails.
DbStep(s, runs, fails, w2) ==
    IF s.raised # None \/ ~runs THEN s
    ELSE IF fails THEN [w |-> s.w, raised |-> ErrDatabase]
    ELSE [w |-> w2, raised |-> None]

\* _create_user: prime_auth_session(self.env, username)
create_user_prime(s, username, fault) ==
    DbStep(s, TRUE, fault = "prime_auth_session",
           prime_auth_session(s.w, username))

\* _create_user: set_user_attribute for the attribute, when the request
\* gives a value for it
create_user_attribute(s, username, attribute, value, fault) ==
    DbStep(s, value # None, fault = attribute,
           set_user_attribute(s.w, username, attribute, value))

\* _create_user: self.set_password(username, password, overwrite=False)
create_user_password(s, username, password, fault) ==
    IF s.raised # None
    THEN Outcome(s.w, None, s.raised, <<>>)
    ELSE set_password(s.w, username, password, FALSE, fault = "listener")

\* _create_user: what the call leaves once the finally clause has run
create_user_end(s, username) ==
    Outcome(create_user_finally(s.w, username), None, s.raised, s.notified)

\* AccountManager._create_user(req) with the request's username,
\* password, name and email (None: not given); fault names the
\* database step that fails or the change listener, if one raises.
create_user(w, uid, password, name, email, fault) ==
    LET username == handle_username_casing(uid)
    IN  create_user_end(
            create_user_password(
                create_user_attribute(
                    create_user_attribute(
                        create_user_prime([w |-> w, raised |-> None],
                                          username, fault),
                        username, "name", name, fault),
                    username, "email", email, fault),
                username, password, fault),
            username)

\* ---- the chain as a state machine ----------------------------------

\* The chains: no store, one store, or two different stores in either
\* order.
Chains ==
    {<<>>} \cup {<<k>> : k \in StoreKinds}
           \cup {c \in {<<j, k>> : j \in StoreKinds, k \in StoreKinds} :
                    c[1] # c[2]}

Has(chain, kind) == \E i \in 1..Len(chain) : chain[i] = kind

\* The password file, the svnserve users, the password rows and the
\* session tables a chain may start with.
ChainInitFiles ==
    LET f1 == FileSetPassword("htpasswd", NoFile, "LF", "a", "p2", TRUE).file
        f2 == FileSetPassword("htpasswd", f1, "LF", "b", "p1", TRUE).file
    IN  {NoFile, f2}

ChainInitSvnUsers ==
    {[u \in Users |-> None], [u \in Users |-> IF u = "a" THEN "p2" ELSE None]}

ChainInitAttrs ==
    LET sa0 == EmptyAttrs(Users)
        sa1 == SessionSetPassword("HtDigestHashMethod", sa0, "a", "p2",
                                  TRUE).sa
    IN  {sa0, sa1}

\* A user who has logged in and was granted a permission.
VisitedBy(U) ==
    [session |-> [u \in Users |-> IF u \in U THEN "1700" ELSE NoRow],
     auth_cookie |-> [c \in CookieIds |->
                        IF c = "c1" /\ "a" \in U THEN "a"
                        ELSE IF c = "c2" /\ "b" \in U THEN "b" ELSE NoRow],
     permission |-> {<<u, x>> : u \in U, x \in Actions}]

InitChain ==
    /\ store = "chain"
    /\ fromEmpty = FALSE
    /\ liveUsers = {}
    /\ os_linesep = "LF"
    /\ hash_method = "HtDigestHashMethod"
    /\ password_stores \in Chains
    /\ refresh_passwd \in IF \E i \in 1..Len(password_stores) :
                               HasAttr(password_stores[i], "set_password")
                          THEN BOOLEAN ELSE {FALSE}
    /\ radius_up \in IF Has(password_stores, "RadiusAuthStore")
                     THEN BOOLEAN ELSE {FALSE}
    /\ ignore_auth_case = FALSE
    /\ passwordFile \in IF Has(password_stores, "HtPasswdStore")
                        THEN ChainInitFiles ELSE {NoFile}
    /\ svn_users \in IF Has(password_stores, "SvnServePasswordStore")
                     THEN ChainInitSvnUsers ELSE {[u \in Users |-> None]}
    /\ session_attribute \in IF Has(password_stores, "SessionStore")
                             THEN ChainInitAttrs ELSE {EmptyAttrs(Users)}
    /\ \E U \in {{}, Users} :
        /\ session = VisitedBy(U).session
        /\ auth_cookie = VisitedBy(U).auth_cookie
        /\ permission = VisitedBy(U).permission
    /\ NoTracData
    /\ writers = <<>>
    /\ last = NoCall

\* The storage becomes w.
Stored(w) ==
    /\ passwordFile' = w.passwordFile
    /\ svn_users' = w.svn_users
    /\ session' = w.session
    /\ session_attribute' = w.session_attribute
    /\ auth_cookie' = w.auth_cookie
    /\ permission' = w.permission

\* AccountManager.check_password(user, password); last.refreshed is the
\* password_refreshed attribute of the user before the call.
CheckPassword(user, password) ==
    LET r == check_password(World, user, password)
    IN  /\ Stored(r.w)
        /\ last' = [op |-> "check_password", user |-> user,
                     password |-> password, overwrite |-> None,
                     result |-> r.result, raised |-> r.raised,
                     notified |-> <<>>, consulted |-> r.consulted,
                     refreshed |->
                        session_attribute[<<user, "password_refreshed">>]]
        /\ UNCHANGED <<storeVars, chainCfg, platform, inProgress, renameVars>>

\* AccountManager.set_password(user, password, overwrite=overwrite)
SetPassword(user, password, overwrite, listener_raises) ==
    LET r == set_password(World, user, password, overwrite, listener_raises)
    IN  /\ Stored(r.w)
        /\ last' = Call("set_password", user, password, Py(overwrite),
                        r.result, r.raised, r.notified, 0)
        /\ UNCHANGED <<storeVars, chainCfg, platform, inProgress, renameVars>>

\* AccountManager.delete_user(user)
DeleteUser(user, listener_raises) ==
    LET r == AccountManager_delete_user(World, user, listener_raises)
    IN  /\ Stored(r.w)
        /\ last' = Call("delete_user", user, None, None, r.result, r.raised,
                        r.notified, 0)
        /\ UNCHANGED <<storeVars, chainCfg, platform, inProgress, renameVars>>

\* AccountManager._create_user(req)
CreateUser(username, password, name, email, fault) ==
    LET r == create_user(World, username, password, name, email, fault)
    IN  /\ Stored(r.w)
        /\ last' = Call("_create_user", username, password, None, r.result,
                        r.raised, r.notified, 0)
        /\ UNCHANGED <<storeVars, chainCfg, platform, inProgress, renameVars>>

\* The password, name and e-mail address a registration request carries.
Registrations == {<<"p1", None, None>>, <<"p1", "n", "e">>}

\* The user the calls that write are made for; the other users are there
\* to be left alone.
Callers == {"a"}

NextChain ==
    \/ \E u \in Users, p \in Passwords : CheckPassword(u, p)
    \/ \E u \in Callers, p \in Passwords, o \in BOOLEAN, x \in BOOLEAN :
        SetPassword(u, p, o, x)
    \/ \E u \in Callers, x \in BOOLEAN : DeleteUser(u, x)
    \/ \E u \in Callers, r \in Registrations :
        \E f \in {None, "prime_auth_session", "listener"}
                 \cup {x \in {"name", "email"} : r[2] # None} :
            CreateUser(u, r[1], r[2], r[3], f)

SpecChain == InitChain /\ [][NextChain]_vars

(***************************************************************************)
(* SpecCasing: AccountManager called with uids that differ in letter case  *)
(* only, with [trac] ignore_auth_case enabled or not.  The accounts the    *)
(* stores start with are lower case.                                       *)
(***************************************************************************)
\* The uids of the requests.
CaseUids == {"a"} \cup MixedCase

InitCasing ==
    /\ store = "casing"
    /\ fromEmpty = FALSE
    /\ liveUsers = {}
    /\ os_linesep = "LF"
    /\ hash_method = "HtDigestHashMethod"
    /\ password_stores \in
          {<<"SessionStore">>, <<"HtPasswdStore">>,
           <<"SvnServePasswordStore">>, <<"HtPasswdStore", "SessionStore">>}
    /\ refresh_passwd = FALSE
    /\ radius_up = FALSE
    /\ ignore_auth_case \in BOOLEAN
    /\ passwordFile \in
          IF Has(password_stores, "HtPasswdStore")
          THEN {NoFile,
                FileSetPassword("htpasswd", NoFile, "LF", "a", "p2", TRUE).file}
          ELSE {NoFile}
    /\ svn_users \in
          IF Has(password_stores, "SvnServePasswordStore")
          THEN {[u \in CaseUids |-> None],
                [u \in CaseUids |-> IF u = "a" THEN "p2" ELSE None]}
          ELSE {[u \in CaseUids |-> None]}
    /\ session_attribute \in
          IF Has(password_stores, "SessionStore")
          THEN {EmptyAttrs(CaseUids),
                SessionSetPassword(hash_method, EmptyAttrs(CaseUids),
                                   "a", "p2", TRUE).sa}
          ELSE {EmptyAttrs(CaseUids)}
    /\ session = [u \in CaseUids |-> NoRow]
    /\ auth_cookie = [c \in CookieIds |-> NoRow]
    /\ permission = {}
    /\ NoTracData
    /\ writers = <<>>
    /\ last = NoCall

NextCasing ==
    \/ \E u \in CaseUids, p \in Passwords : CheckPassword(u, p)
    \/ \E u \in CaseUids, p \in Passwords, o \in BOOLEAN, x \in BOOLEAN :
        SetPassword(u, p, o, x)
    \/ \E u \in CaseUids, x \in BOOLEAN : DeleteUser(u, x)
    \/ \E u \in CaseUids, r \in Registrations :
        \E f \in {None, "listener"} : CreateUser(u, r[1], r[2], r[3], f)

SpecCasing == InitCasing /\ [][NextCasing]_vars

(***************************************************************************)
(* SpecReset: the password reset procedure of web_ui.py.  AccountModule    *)
(* keeps the temporary password in ResetPwStore, a SessionStore with the   *)
(* key 'password_reset'; LoginModule._remote_user accepts it next to the   *)
(* password of the configured stores.  [account-manager] reset_password    *)
(* and force_passwd_change have their default, True; the change listeners  *)
(* of AccountManager.set_password are quiet.                               *)
(***************************************************************************)
\* The passwords of the requests, and the passwords _random_password draws.
TempPasswords == {"t1", "t2"}
ResetPasswords == Passwords \cup TempPasswords

\* ResetPwStore.set_password(username, new_password)
reset_set_password(sa, user, password) ==
    [sa EXCEPT ![<<user, "password_reset">>] =
        GenerateHash(hash_method, user, password)]

\* ResetPwStore.check_password(user, password)
reset_check_password(sa, user, password) ==
    IF sa[<<user, "password_reset">>] = None THEN None
    ELSE Py(CheckHash(hash_method, user, password,
                      sa[<<user, "password_reset">>]))

\* ResetPwStore.delete_user(user): [sa, result]
reset_delete_user(sa, user) ==
    [sa |-> [sa EXCEPT ![<<user, "password_reset">>] = None],
     result |-> Py(sa[<<user, "password_reset">>] # None)]

\* AccountModule._reset_password(req, username, email); new_password is
\* what _random_password gave, fault what the notification raises (None,
\* "NotificationError" or "Exception").
reset_password(w, username, new_password, fault) ==
    LET sa1 == reset_set_password(w.session_attribute, username, new_password)
        w1  == [w EXCEPT !.session_attribute = sa1]
    IN  IF fault = "Exception" THEN w1
        ELSE set_user_attribute(w1, username, "force_change_passwd", "1")

\* _remote_user that leaves the row of the temporary password
remote_user_KeepsReset(w, username, password) ==
    CHOOSE r \in
        {IF c.result = PyTrue
         THEN [w |-> c.w, result |-> username]
         ELSE IF reset_check_password(c.w.session_attribute, username,
                                       password) = PyTrue
         THEN CHOOSE t \in
                {[w |-> s.w,
                  result |-> IF s.raised = None THEN username ELSE None] :
                 s \in {set_password(c.w, username, password, TRUE, FALSE)}} :
                TRUE
         ELSE [w |-> c.w, result |-> None] :
         c \in {check_password(w, username, password)}} : TRUE

\* LoginModule._remote_user(req) with the username and password of the
\* request: [w, result]; result is the username, or None.  c is what
\* acctmgr.check_password returned, s what _set_password did.
remote_user(w, username, password) ==
    CHOOSE r \in
        {IF c.result = PyTrue
         THEN LET d == reset_delete_user(c.w.session_attribute, username)
              IN  [w |-> [c.w EXCEPT !.session_attribute =
                             IF d.result = PyTrue
                             THEN [d.sa EXCEPT
                                     ![<<username, "force_change_passwd">>] = None]
                             ELSE d.sa],
                   result |-> username]
         ELSE IF reset_check_password(c.w.session_attribute, username,
                                       password) = PyTrue
         THEN CHOOSE t \in
                {[w |-> s.w,
                  result |-> IF s.raised = None THEN username ELSE None] :
                 s \in {set_password(c.w, username, password, TRUE, FALSE)}} :
                TRUE
         ELSE [w |-> c.w, result |-> None] :
         c \in {check_password(w, username, password)}} : TRUE

\* AccountModule._do_account(req) with action 'save' for the user of the
\* session, and the _do_change_password it calls: [w, result]; result is
\* PyTrue when the password was changed.
do_account_save(w, username, old_password, password) ==
    LET force == w.session_attribute[<<username, "force_change_passwd">>] # None
    IN  CHOOSE r \in
          {IF c.result \notin {PyTrue} \/ password = old_password
           THEN [w |-> c.w, result |-> None]
           ELSE CHOOSE t \in
                  {[w |-> IF force
                          THEN [s EXCEPT !.session_attribute[
                                   <<username, "force_change_passwd">>] = None]
                          ELSE s,
                    result |-> PyTrue] :
                   s \in {set_password(c.w, username, password, TRUE,
                                       FALSE).w}} : TRUE :
           c \in {check_password(w, username, old_password)}} : TRUE

\* The outcome of a request, and what happened since the last reset: the
\* temporary password, the passwords the stores verified when it was made,
\* the passwords of the logins, whether the user changed the password.
ResetCall(op, user, password, result, temp, old, logins, changed) ==
    [op |-> op, user |-> user, password |-> password, result |-> result,
     temp |-> temp, old |-> old, logins |-> logins, changed |-> changed]

InitReset ==
    /\ store = "reset"
    /\ fromEmpty = FALSE
    /\ liveUsers = {}
    /\ os_linesep = "LF"
    /\ hash_method = "HtDigestHashMethod"
    /\ password_stores \in {<<"SessionStore">>, <<"SvnServePasswordStore">>}
    /\ refresh_passwd = FALSE
    /\ radius_up = FALSE
    /\ ignore_auth_case = FALSE
    /\ passwordFile = NoFile
    /\ svn_users = [u \in Users |->
                      IF u = "a" /\ password_stores = <<"SvnServePasswordStore">>
                      THEN "p1" ELSE None]
    /\ session_attribute =
          [k \in Users \X (AttrNames \cup {"password_reset",
                                           "force_change_passwd"}) |->
              IF k = <<"a", "password">> /\ password_stores = <<"SessionStore">>
              THEN GenerateHash(hash_method, "a", "p1") ELSE None]
    /\ session = [u \in Users |-> IF u = "a" THEN "1700" ELSE NoRow]
    /\ auth_cookie = [c \in CookieIds |-> NoRow]
    /\ permission = {}
    /\ NoTracData
    /\ writers = <<>>
    /\ last = ResetCall("none", None, None, None, None, {}, {}, FALSE)

\* POST /reset_password for a known user
ResetPassword(username, new_password, fault) ==
    /\ Stored(reset_password(World, username, new_password, fault))
    /\ last' = ResetCall("_reset_password", username, new_password, None,
                         new_password,
                         {p \in ResetPasswords :
                             check_password(World, username, p).result = PyTrue},
                         {}, FALSE)
    /\ UNCHANGED <<storeVars, chainCfg, platform, inProgress, renameVars>>

\* POST /login
Login(username, password) ==
    LET r == remote_user(World, username, password)
    IN  /\ Stored(r.w)
        /\ last' = ResetCall("_remote_user", username, password, r.result,
                             last.temp, last.old,
                             IF r.result = None THEN last.logins
                             ELSE last.logins \cup {password},
                             last.changed)
        /\ UNCHANGED <<storeVars, chainCfg, platform, inProgress, renameVars>>

\* POST /prefs/account with action 'save'
ChangePassword(username, old_password, password) ==
    LET r == do_account_save(World, username, old_password, password)
    IN  /\ Stored(r.w)
        /\ last' = ResetCall("_do_change_password", username, password,
                             r.result, last.temp, last.old, last.logins,
                             last.changed \/ r.result = PyTrue)
        /\ UNCHANGED <<storeVars, chainCfg, platform, inProgress, renameVars>>

NextReset ==
    \/ \E t \in TempPasswords, f \in {None, "NotificationError", "Exception"} :
        ResetPassword("a", t, f)
    \/ \E p \in ResetPasswords : Login("a", p)
    \/ \E o \in ResetPasswords, p \in Passwords : ChangePassword("a", o, p)

SpecReset == InitReset /\ [][NextReset]_vars



\* ---- claims about the chain ----------------------------------------

\* The storage after the step.
WorldNext ==
    [passwordFile |-> passwordFile', svn_users |-> svn_users',
     session |-> session', session_attribute |-> session_attribute',
     auth_cookie |-> auth_cookie', permission |-> permission']

\* What a store of the kind keeps its accounts in.
Storage(kind, w) ==
    CASE kind = "SessionStore" -> w.session_attribute
      [] kind \in FileStores -> w.passwordFile
      [] kind = "SvnServePasswordStore" -> w.svn_users
      [] OTHER -> None

\* The store of the chain at index i.
Kind(i) == password_stores[i]

\* Store i answers for user as before the step, whatever the password,
\* and lists the same users.
SameCredentials(i, user) ==
    /\ \A p \in Passwords :
        store_check_password(Kind(i), WorldNext, user, p)
            = store_check_password(Kind(i), World, user, p)
    /\ store_get_users(Kind(i), WorldNext) = store_get_users(Kind(i), World)

\* No row of the session tables, the cookies or the permissions is
\* user's.
NoRows(w, user) ==
    /\ w.session[user] = NoRow
    /\ \A n \in AttrNames : w.session_attribute[<<user, n>>] = None
    /\ \A c \in CookieIds : w.auth_cookie[c] # user
    /\ \A x \in Actions : <<user, x>> \notin w.permission

\* Every row of user before the step is still there after it.
RowsKept(user) ==
    /\ session[user] # NoRow => session'[user] # NoRow
    /\ \A n \in AttrNames :
        session_attribute[<<user, n>>] # None
            => session_attribute'[<<user, n>>] # None
    /\ \A c \in CookieIds : auth_cookie[c] = user => auth_cookie'[c] = user
    /\ \A x \in Actions :
        <<user, x>> \in permission => <<user, x>> \in permission'

\* The first store of the chain that answers True or False for the
\* user and password, 0 if every store answers None.
FirstDefinite(w, user, password) ==
    FirstIndex({i \in 1..Len(password_stores) :
                    store_check_password(Kind(i), w, user, password)
                        \in {PyTrue, PyFalse}})

\* C1: AccountManager.check_password returns the answer of the first
\* store in order that answers True or False, and consults no store
\* after that one.
C1_FirstDefiniteStoreDecides ==
    [][(last'.op = "check_password" /\ last'.raised = None) =>
        LET d == FirstDefinite(World, last'.user, last'.password)
        IN  d # 0 =>
              /\ last'.result = store_check_password(Kind(d), World,
                                    last'.user, last'.password)
              /\ last'.consulted = d]_vars

\* C5: AccountManager.set_password with overwrite=False for a user some
\* store lists raises, leaves every store's answers for that user and
\* its list of users as they were, and sends no notification.
C5_NoOverwriteOfExistingUser ==
    [][(/\ last'.op = "set_password"
        /\ last'.overwrite = PyFalse
        /\ find_user_store(World, last'.user) # 0) =>
        /\ last'.raised # None
        /\ last'.notified = <<>>
        /\ \A i \in 1..Len(password_stores) :
            SameCredentials(i, last'.user)]_vars

C5_Witness ==
    /\ last.op = "set_password"
    /\ last.overwrite = PyFalse
    /\ last.raised = ErrExisted
    /\ Len(password_stores) = 2
    /\ find_user_store(World, last.user) = 2
    /\ last.password = "p1"
    /\ store_check_password(Kind(2), World, last.user, "p2") = PyTrue

\* C6: AccountManager.set_password writes to the owner of the user (the
\* first store that lists it) and to no other store; raises without
\* writing when the owner has no set_password; when no store lists the
\* user writes to the first store that has set_password; raises without
\* writing when there is none.
C6_WritesToOwnerElseFirstWritable ==
    [][last'.op = "set_password" =>
        LET u == last'.user
            owner == find_user_store(World, u)
            first == get_supporting_store("set_password")
            target == IF owner # 0 THEN owner ELSE first
        IN  /\ (owner # 0 /\ ~HasAttr(Kind(owner), "set_password")) =>
                (last'.raised = ErrReadOnly /\ WorldNext = World)
            /\ (owner = 0 /\ first = 0) =>
                (last'.raised = ErrNoStore /\ WorldNext = World)
            /\ (target # 0 /\ HasAttr(Kind(target), "set_password")) =>
                /\ \A i \in 1..Len(password_stores) :
                     i # target =>
                        Storage(Kind(i), WorldNext) = Storage(Kind(i), World)
                /\ (last'.overwrite = PyTrue \/ owner = 0) =>
                     store_check_password(Kind(target), WorldNext, u,
                                          last'.password) = PyTrue]_vars

C6_Witness ==
    /\ last.op = "set_password"
    /\ last.notified = <<"user_password_changed">>
    /\ Len(password_stores) = 2
    /\ HasAttr(Kind(1), "set_password")
    /\ find_user_store(World, last.user) = 2
    /\ store_check_password(Kind(2), World, last.user, last.password) = PyTrue
    /\ store_check_password(Kind(1), World, last.user, last.password) = None

\* C7: AccountManager.delete_user removes the user from the store that
\* owns it when that store has delete_user and, whether or not a store
\* owns the user, leaves no auth_cookie, session_attribute, session or
\* permission row of the user and sends one 'deleted' notification.
C7_DeleteRemovesCredentialAndRows ==
    [][last'.op = "delete_user" =>
        LET u == last'.user
            owner == find_user_store(World, u)
        IN  /\ (owner # 0 /\ HasAttr(Kind(owner), "delete_user")) =>
                u \notin store_get_users(Kind(owner), WorldNext)
            /\ NoRows(WorldNext, u)
            /\ last'.notified = <<"user_deleted">>]_vars

C7_Witness ==
    /\ last.op = "delete_user"
    /\ last.notified = <<"user_deleted">>
    /\ password_stores = <<"RadiusAuthStore">>
    /\ NoRows(World, last.user)
    /\ \E u \in Users : session[u] = "1700"

\* C8: when a step of _create_user raised and no store has the user
\* afterwards, no session, session_attribute, auth_cookie or permission
\* row of the user is left; when a store has the user afterwards, no
\* such row was deleted.
C8_CreateUserRollsBack ==
    [][last'.op = "_create_user" =>
        LET u == last'.user
        IN  /\ (last'.raised # None /\ ~has_user(WorldNext, u)) =>
                NoRows(WorldNext, u)
            /\ has_user(WorldNext, u) => RowsKept(u)]_vars

C8_Witness ==
    /\ last.op = "_create_user"
    /\ last.raised = ErrDatabase
    /\ Has(password_stores, "SessionStore")
    /\ ~has_user(World, last.user)
    /\ NoRows(World, last.user)
    /\ \E u \in Users : session[u] = "1700"

\* The password_refreshed attribute of the user is set.
Refreshed(w, user) == w.session_attribute[<<user, "password_refreshed">>] = "1"

\* The step is a call of check_password that returns True while
\* refresh_passwd is enabled and a store has set_password.
VerifiedWithRefresh ==
    /\ last'.op = "check_password" /\ last'.result = PyTrue
    /\ refresh_passwd /\ get_supporting_store("set_password") # 0

\* C13: with refresh_passwd enabled and a writable store, _maybe_update_hash
\* rewrites the credential of a uid during at most the first of the
\* successful check_password calls for it: a successful call leaves the
\* uid marked as refreshed, no call of check_password removes the mark of
\* any uid, and a successful call for a marked uid writes to no password
\* store (and to nothing else).
C13_RefreshedAtMostOnce ==
    [][/\ VerifiedWithRefresh =>
            /\ Refreshed(WorldNext, last'.user)
            /\ Refreshed(World, last'.user) => WorldNext = World
       /\ last'.op = "check_password" =>
            \A u \in Users : Refreshed(World, u) => Refreshed(WorldNext, u)
      ]_vars

\* A verification succeeds for a uid whose credential was refreshed by an
\* earlier one.
C13_Witness ==
    /\ last.op = "check_password" /\ last.result = PyTrue
    /\ last.refreshed = "1"
    /\ refresh_passwd /\ get_supporting_store("set_password") # 0

\* C14: when the hash refresh runs after a True verification for a uid
\* that find_user_store locates in a store other than the first store
\* that has set_password, then after check_password has returned the
\* first writable store lists the uid and verifies the password, the store
\* that listed the uid before lists it no longer, and check_password with
\* the same password is still True.
C14_RefreshMovesCredential ==
    [][(VerifiedWithRefresh /\ last'.refreshed # "1") =>
        LET owner   == find_user_store(World, last'.user)
            pwstore == get_supporting_store("set_password")
        IN  (owner # 0 /\ owner # pwstore) =>
              /\ last'.user \in store_get_users(Kind(pwstore), WorldNext)
              /\ store_check_password(Kind(pwstore), WorldNext, last'.user,
                                      last'.password) = PyTrue
              /\ last'.user \notin store_get_users(Kind(owner), WorldNext)
              /\ check_password(WorldNext, last'.user,
                                last'.password).result = PyTrue
      ]_vars


\* C22: a set_password call of AccountManager that returns passes on True
\* when the store it wrote to did not have the uid before and False when
\* it had, and sends exactly one notification: user_created in the first
\* case, user_password_changed in the second.
C22_ReturnsWhetherCreated ==
    [][(last'.op = "set_password" /\ last'.raised = None) =>
        LET t == set_password_store(World, last'.user)
            existed == store_has_user(Kind(t.store), World, last'.user)
        IN  /\ last'.result = Py(~existed)
            /\ last'.notified = <<IF existed THEN "user_password_changed"
                                  ELSE "user_created">>
      ]_vars

\* C25: the delete_user call AccountManager.delete_user makes on the store
\* that has the uid returns True, and afterwards that store's has_user(uid)
\* is False.
C25_DeleteReturnsExisted ==
    [][last'.op = "delete_user" =>
        LET owner == find_user_store(World, last'.user)
        IN  (owner # 0 /\ HasAttr(Kind(owner), "delete_user")) =>
              LET r == store_delete_user(Kind(owner), World, last'.user)
              IN  /\ r.result = PyTrue
                  /\ ~store_has_user(Kind(owner), r.w, last'.user)
                  /\ ~store_has_user(Kind(owner), WorldNext, last'.user)
      ]_vars

\* C26: a _create_user call that fails because a store already has the uid
\* leaves the uid's credential in every store, its session row and its name
\* and email attributes as they were before the call.
C26_FailedCreateChangesNothing ==
    [][(last'.op = "_create_user" /\ has_user(World, last'.user)
        /\ last'.raised \in {ErrExisted, ErrReadOnly}) =>
        LET u == last'.user
        IN  /\ \A i \in DOMAIN password_stores : SameCredentials(i, u)
            /\ session'[u] = session[u]
            /\ \A n \in {"name", "email"} :
                  session_attribute'[<<u, n>>] = session_attribute[<<u, n>>]
      ]_vars

Answer(i) ==
    store_check_password(Kind(i), World, last'.user, last'.password)

LowercaseOnly(w) ==
    /\ \A i \in DOMAIN password_stores :
          store_get_users(Kind(i), w) \cap MixedCase = {}
    /\ \A u \in MixedCase :
          /\ w.session[u] = NoRow
          /\ \A n \in AttrNames : w.session_attribute[<<u, n>>] = None

\* The step is what AccountManager does for the uid in lower case.
AsForLowercase ==
    LET u == Lower(last'.user)
        Same(r) == /\ r.w = WorldNext /\ r.result = last'.result
                   /\ r.raised = last'.raised
    IN  CASE last'.op = "check_password" ->
               Same(check_password(World, u, last'.password))
          [] last'.op = "set_password" ->
               \E x \in BOOLEAN :
                  LET r == set_password(World, u, last'.password,
                                        last'.overwrite = PyTrue, x)
                  IN  Same(r) /\ r.notified = last'.notified
          [] last'.op = "delete_user" ->
               \E x \in BOOLEAN :
                  Same(AccountManager_delete_user(World, u, x))
          [] last'.op = "_create_user" ->
               \E r \in Registrations, f \in {None, "listener"} :
                  Same(create_user(World, u, r[1], r[2], r[3], f))

\* C29: with ignore_auth_case enabled has_user, check_password,
\* set_password, delete_user, find_user_store and _create_user work on the
\* uid in lower case: the stores and the session tables get no uid with an
\* upper case letter, and each operation does and answers for a uid what it
\* does and answers for the uid in lower case.
C29_LowercaseAtEveryEntry ==
    [][ignore_auth_case =>
        /\ LowercaseOnly(WorldNext)
        /\ AsForLowercase
        /\ \A u \in CaseUids :
              /\ has_user(WorldNext, u) = has_user(WorldNext, Lower(u))
              /\ find_user_store(WorldNext, u)
                    = find_user_store(WorldNext, Lower(u))
      ]_vars

\* C29 witness: with ignore_auth_case enabled set_password("A", ...) made
\* the account "a", which has_user and check_password find under "A".
C29_Witness ==
    /\ ignore_auth_case
    /\ last.op = "set_password" /\ last.user = "A" /\ last.raised = None
    /\ last.notified = <<"user_created">>
    /\ LowercaseOnly(World)
    /\ "a" \in store_get_users(Kind(1), World)
    /\ has_user(World, "A") /\ find_user_store(World, "A") = 1
    /\ check_password(World, "A", last.password).result = PyTrue

\* C36: after AccountManager.delete_user(uid) has returned, has_user(uid)
\* is False and check_password(uid, pw) is not True for any pw, also for
\* a uid that exists in two stores at once (stated for chains of stores
\* that can delete).
C36_DeletedEverywhere ==
    [][(/\ last'.op = "delete_user"
        /\ last'.raised = None
        /\ \A i \in 1..Len(password_stores) :
              HasAttr(Kind(i), "delete_user"))
        => /\ ~has_user(WorldNext, last'.user)
           /\ \A pw \in Passwords :
                 check_password(WorldNext, last'.user, pw).result # PyTrue]_vars

\* C37: a failed _create_user leaves in place every row that existed for
\* uid before the call: the session, session_attribute, auth_cookie and
\* permission rows of a uid that had no credential in any enumerating
\* store are the same after the failed call as before it (stated for the
\* users of a chain with RadiusAuthStore).
C37_FailedCreateKeepsRows ==
    [][(/\ last'.op = "_create_user"
        /\ last'.raised # None
        /\ Has(password_stores, "RadiusAuthStore")
        /\ ~has_user(World, last'.user))
        => LET u == last'.user
           IN  /\ session'[u] = session[u]
               /\ \A n \in AttrNames :
                     session_attribute'[<<u, n>>] = session_attribute[<<u, n>>]
               /\ \A c \in CookieIds :
                     auth_cookie[c] = u => auth_cookie'[c] = u
               /\ \A x \in Actions :
                     <<u, x>> \in permission => <<u, x>> \in permission']_vars

\* C39: AccountManager.set_password(uid, pw, overwrite=False) for a uid
\* that exists in no store succeeds with every writable store type, also
\* one with the three-argument set_password (SvnServePasswordStore): the
\* account is created, the call returns without an error and 'created' is
\* the notification fired; 'existed, couldn't create' is raised only when
\* uid existed before the call.
C39_CreateWithoutOverwrite ==
    [][\A u \in Users, p \in Passwords :
        (/\ SetPassword(u, p, FALSE, FALSE)
         /\ get_supporting_store("set_password") # 0)
        => /\ ~has_user(World, u)
              => /\ last'.raised = None
                 /\ has_user(WorldNext, u)
                 /\ last'.notified = <<"user_created">>
           /\ last'.raised = ErrExisted => has_user(World, u)]_vars

\* Every uid is listed by at most one store of the chain.
ListedOnce(w) ==
    \A u \in Users :
        Cardinality({i \in 1..Len(password_stores) :
                        u \in store_get_users(Kind(i), w)}) <= 1

\* The chains of the stores of the plugin in which every uid is listed by
\* at most one store, and the calls of SpecChain from there.
InitListedOnce ==
    /\ InitChain
    /\ ~Has(password_stores, "ReadOnlyStore")
    /\ ListedOnce(World)

SpecListedOnce == InitListedOnce /\ [][NextChain]_vars

\* C40: starting from stores in which every uid is listed by at most one
\* store, after any sequence of set_password, delete_user, _create_user
\* and check_password (with or without refresh_passwd) every uid is still
\* listed by at most one configured store.
C40_ListedByOneStore == ListedOnce(World)

\* ------------------------------------------------------------------
\* Changing a user id (model.py).
\* ------------------------------------------------------------------

\* The tables change_uid and the changers work on.
Db ==
    [session |-> session, session_attribute |-> session_attribute,
     auth_cookie |-> auth_cookie, permission |-> permission,
     authored |-> authored, ticket |-> ticket,
     ticket_change |-> ticket_change]

\* A Cc value, and any old or new value of a ticket change, is a sequence
\* of tokens: names and the separators the Cc parser splits on.
Separators == {",", ";", " "}
Names == Users \cup {"ab"}

\* ', '.join(cc)
RECURSIVE Join(_)
Join(cc) ==
    IF Len(cc) <= 1 THEN cc
    ELSE <<Head(cc), ",", " ">> \o Join(Tail(cc))

\* The loop of _get_cc_list over what re.split gives.
RECURSIVE get_cc_list_from(_, _)
get_cc_list_from(tokens, cclist) ==
    IF tokens = <<>> THEN cclist
    ELSE LET cc == Head(tokens)
         IN  get_cc_list_from(Tail(tokens),
                IF cc \notin Separators /\ cc \notin Range(cclist)
                THEN Append(cclist, cc)
                ELSE cclist)

\* _get_cc_list(cc_value)
get_cc_list(cc_value) == get_cc_list_from(cc_value, <<>>)

\* value LIKE '%uid%': some name of the value has uid as a substring.
Like(value, uid) ==
    \E i \in DOMAIN value :
        \/ value[i] = uid
        \/ (value[i] = "ab" /\ uid \in {"a", "b"})

\* The Cc value the changer stores for a row the LIKE selected: the
\* parsed list with old_uid replaced, joined; the value is left as it is
\* when no entry of the list is old_uid.
replace_cc(value, old_uid, new_uid) ==
    LET cc == get_cc_list(value)
    IN  IF Like(value, old_uid) /\ old_uid \in Range(cc)
        THEN Join([i \in DOMAIN cc |->
                     IF cc[i] = old_uid THEN new_uid ELSE cc[i]])
        ELSE value

\* PrimitiveUserIdChanger.replace that updates nothing
replace_rows_Nothing(rows, old_uid, new_uid) ==
    rows

\* PrimitiveUserIdChanger.replace on a column given as user -> number of
\* rows: UPDATE table SET column=new WHERE column=old
replace_rows(rows, old_uid, new_uid) ==
    IF rows[old_uid] > 0 /\ old_uid # new_uid
    THEN [u \in Users |->
            IF u = old_uid THEN 0
            ELSE IF u = new_uid THEN rows[new_uid] + rows[old_uid]
            ELSE rows[u]]
    ELSE rows

\* The same UPDATE on one value of the column.
replace_value(value, old_uid, new_uid) ==
    IF value = old_uid THEN new_uid ELSE value

\* UniqueUserIdChanger.replace without the DELETE of the rows of new_uid.
replace_auth_cookie_NoDelete(cookies, old_uid, new_uid) ==
    [c \in CookieIds |-> replace_value(cookies[c], old_uid, new_uid)]

\* UniqueUserIdChanger.replace on auth_cookie.name
replace_auth_cookie(cookies, old_uid, new_uid) ==
    LET deleted == [c \in CookieIds |->
                      IF cookies[c] = new_uid THEN NoRow ELSE cookies[c]]
    IN  [c \in CookieIds |-> replace_value(deleted[c], old_uid, new_uid)]

\* UniqueUserIdChanger.replace on permission.username
replace_permission(perms, old_uid, new_uid) ==
    LET deleted == {r \in perms : r[1] # new_uid}
    IN  {<<replace_value(r[1], old_uid, new_uid), r[2]>> : r \in deleted}

\* TicketUserIdChanger.replace on ticket: owner, reporter and cc
replace_ticket(t, old_uid, new_uid) ==
    [i \in TicketIds |->
        [owner |-> replace_value(t[i].owner, old_uid, new_uid),
         reporter |-> replace_value(t[i].reporter, old_uid, new_uid),
         cc |-> replace_cc(t[i].cc, old_uid, new_uid)]]

\* TicketUserIdChanger.replace on column oldvalue or newvalue of the
\* ticket changes of field cc: the UPDATE selects by ticket and time.
replace_change_cc(tc, column, old_uid, new_uid) ==
    LET Selected(r) == /\ r.field = "cc"
                       /\ Like(r[column], old_uid)
                       /\ old_uid \in Range(get_cc_list(r[column]))
        Source(r) == {x \in tc : /\ Selected(x)
                                 /\ x.ticket = r.ticket
                                 /\ x.time = r.time}
    IN  {IF Source(r) = {} THEN r
         ELSE [r EXCEPT ![column] =
                 replace_cc((CHOOSE x \in Source(r) : TRUE)[column],
                            old_uid, new_uid)]
         : r \in tc}

\* TicketUserIdChanger.replace on ticket_change: author, then the old
\* and new values of owner and reporter changes, then those of cc
\* changes.
replace_ticket_change(tc, old_uid, new_uid) ==
    LET IsUserField(r) == r.field \in {"owner", "reporter"}
        tc1 == {[r EXCEPT !.author = replace_value(@, old_uid, new_uid)]
                : r \in tc}
        tc2 == {IF IsUserField(r) /\ r.oldvalue = <<old_uid>>
                THEN [r EXCEPT !.oldvalue = <<new_uid>>] ELSE r : r \in tc1}
        tc3 == {IF IsUserField(r) /\ r.newvalue = <<old_uid>>
                THEN [r EXCEPT !.newvalue = <<new_uid>>] ELSE r : r \in tc2}
        tc4 == replace_change_cc(tc3, "oldvalue", old_uid, new_uid)
    IN  replace_change_cc(tc4, "newvalue", old_uid, new_uid)

\* The changers in the order of their definition.
changers == <<"AttachmentUserIdChanger", "AuthCookieUserIdChanger",
              "ComponentUserIdChanger", "PermissionUserIdChanger",
              "ReportUserIdChanger", "RevisionUserIdChanger",
              "TicketUserIdChanger", "WikiUserIdChanger">>

\* The table of a changer of one column.
TableOf(changer) ==
    CASE changer = "AttachmentUserIdChanger" -> "attachment"
      [] changer = "ComponentUserIdChanger" -> "component"
      [] changer = "ReportUserIdChanger" -> "report"
      [] changer = "RevisionUserIdChanger" -> "revision"
      [] changer = "WikiUserIdChanger" -> "wiki"

\* The column of a changer of one column.
ColumnOf(changer) ==
    IF changer = "ComponentUserIdChanger" THEN "owner" ELSE "author"

\* What a replace method returns: a dictionary from (table, column,
\* constraint) to a count, given as the set of its items.
Item(table, column, constraint, result) ==
    <<<<table, column, constraint>>, result>>

\* Assignment in place of dict.update.
Update_Assign(results, result) == result

\* dict.update
Update(results, result) ==
    {x \in results : \A y \in result : y[1] # x[1]} \cup result

\* The items TicketUserIdChanger.replace reports when no statement fails:
\* the rows each of its statements found in the tables as they were.
ticket_results(db, old_uid, new_uid) ==
    LET tc == db.ticket_change
        IsUserField(r) == r.field \in {"owner", "reporter"}
        InCc(value) == Like(value, old_uid)
                        /\ old_uid \in Range(get_cc_list(value))
    IN  {Item("ticket", "owner", None,
              Cardinality({i \in TicketIds : db.ticket[i].owner = old_uid})),
         Item("ticket", "reporter", None,
              Cardinality({i \in TicketIds :
                              db.ticket[i].reporter = old_uid})),
         Item("ticket", "cc", None,
              Cardinality({i \in TicketIds : InCc(db.ticket[i].cc)})),
         Item("ticket_change", "author", None,
              Cardinality({r \in tc : r.author = old_uid})),
         Item("ticket_change", "oldvalue", "field='owner'|'reporter'",
              Cardinality({r \in tc : IsUserField(r)
                                      /\ r.oldvalue = <<old_uid>>})),
         Item("ticket_change", "newvalue", "field='owner'|'reporter'",
              Cardinality({r \in tc : IsUserField(r)
                                      /\ r.newvalue = <<old_uid>>})),
         Item("ticket_change", "oldvalue", "field='cc'",
              Cardinality({r \in tc : r.field = "cc" /\ InCc(r.oldvalue)})),
         Item("ticket_change", "newvalue", "field='cc'",
              Cardinality({r \in tc : r.field = "cc" /\ InCc(r.newvalue)}))}

\* changer.replace(old_uid, new_uid): the tables after it, whether it
\* reports an error, what it returns ({'error': result} when error), and
\* the table attribute it leaves.  table is the table attribute of
\* TicketUserIdChanger before the call: once it is 'ticket_change' the
\* first statement selects by a column that table does not have.
replace(changer, db, table, old_uid, new_uid) ==
    CASE changer = "AuthCookieUserIdChanger" ->
            [db |-> [db EXCEPT !.auth_cookie =
                        replace_auth_cookie(@, old_uid, new_uid)],
             error |-> FALSE, table |-> table,
             result |-> {Item("auth_cookie", "name", None,
                          Cardinality({c \in CookieIds :
                              /\ db.auth_cookie[c] = old_uid
                              /\ old_uid # new_uid}))}]
      [] changer = "PermissionUserIdChanger" ->
            [db |-> [db EXCEPT !.permission =
                        replace_permission(@, old_uid, new_uid)],
             error |-> FALSE, table |-> table,
             result |-> {Item("permission", "username", None,
                          Cardinality({r \in db.permission :
                              r[1] = old_uid /\ old_uid # new_uid}))}]
      [] changer = "TicketUserIdChanger" ->
            IF table # "ticket"
            THEN [db |-> db, error |-> TRUE, table |-> table,
                  result |-> {Item(table, "owner", None, "OperationalError")}]
            ELSE [db |-> [db EXCEPT
                            !.ticket = replace_ticket(@, old_uid, new_uid),
                            !.ticket_change =
                                replace_ticket_change(@, old_uid, new_uid)],
                  error |-> FALSE, table |-> "ticket_change",
                  result |-> ticket_results(db, old_uid, new_uid)]
      [] OTHER ->
            [db |-> [db EXCEPT !.authored[TableOf(changer)] =
                        replace_rows(@, old_uid, new_uid)],
             error |-> FALSE, table |-> table,
             result |-> {Item(TableOf(changer), ColumnOf(changer), None,
                              db.authored[TableOf(changer)][old_uid])}]

\* The loop of change_uid over the changers from index i on: it stops
\* at the first changer that reports an error and returns what that one
\* returned.  ran is the number of changers called.
RECURSIVE replace_from(_, _, _, _, _, _)
replace_from(i, db, table, old_uid, new_uid, results) ==
    IF i > Len(changers)
    THEN [db |-> db, error |-> FALSE, table |-> table, result |-> results,
          ran |-> i - 1]
    ELSE LET r == replace(changers[i], db, table, old_uid, new_uid)
         IN  IF r.error
             THEN [db |-> r.db, error |-> TRUE, table |-> r.table,
                   result |-> r.result, ran |-> i]
             ELSE replace_from(i + 1, r.db, r.table, old_uid, new_uid,
                               Update(results, r.result))

\* copy_user_attributes that replaces the values of new_uid whatever
\* overwrite is.
copy_user_attributes_AlwaysOverwrite(sa, username, new_uid, overwrite) ==
    [k \in Users \X AttrNames |->
        IF k[1] = new_uid /\ sa[<<username, k[2]>>] # None
        THEN sa[<<username, k[2]>>]
        ELSE sa[k]]

\* copy_user_attributes(env, username, new_uid, overwrite)
copy_user_attributes(sa, username, new_uid, overwrite) ==
    [k \in Users \X AttrNames |->
        IF /\ k[1] = new_uid
           /\ sa[<<username, k[2]>>] # None
           /\ (sa[k] = None \/ overwrite)
        THEN sa[<<username, k[2]>>]
        ELSE sa[k]]

\* The count copy_user_attributes returns: the rows it inserted or updated.
copy_count(sa, username, new_uid, overwrite) ==
    Cardinality({n \in AttrNames :
                    /\ sa[<<username, n>>] # None
                    /\ (sa[<<new_uid, n>>] = None \/ overwrite)})

\* del_user_attribute that deletes nothing.
del_user_attribute_Nothing(sa, username) ==
    sa

\* del_user_attribute(env, username)
del_user_attribute(sa, username) ==
    [k \in Users \X AttrNames |-> IF k[1] = username THEN None ELSE sa[k]]

\* What the database holds once the transaction of change_uid ends
\* without an exception after a statement failed in it: the work done so
\* far where a failed statement leaves the transaction open, nothing of
\* it where a failed statement aborts the transaction.
Committed(before, sofar, failed) ==
    IF failed /\ dbtype = "postgres" THEN before ELSE sofar

\* change_uid when it deletes the session of old_uid before it looks at
\* what the changers returned.
change_uid_DeletesOnError(db, table, old_uid, new_uid, attr_overwrite) ==
    LET s1 == [db.session EXCEPT ![new_uid] = NoRow]
        s2 == [s1 EXCEPT ![new_uid] =
                  IF s1[old_uid] = NoRow THEN None ELSE s1[old_uid]]
        a1 == copy_user_attributes(db.session_attribute, old_uid, new_uid,
                                   attr_overwrite)
        a2 == IF attr_overwrite THEN del_user_attribute(a1, old_uid) ELSE a1
        r == replace_from(1, [db EXCEPT !.session = s2,
                                        !.session_attribute = a2],
                          table, old_uid, new_uid,
                          {Item("session_attribute", "sid", None,
                                copy_count(db.session_attribute, old_uid,
                                           new_uid, attr_overwrite))})
        done == [r.db EXCEPT !.session[old_uid] = NoRow]
    IN  IF r.error
        THEN [db |-> done, result |-> "error",
              items |-> r.result, table |-> r.table, ran |-> r.ran]
        ELSE [db |-> done, result |-> "results",
              items |-> Update(r.result, {Item("session", "sid", None, 1)}),
              table |-> r.table, ran |-> r.ran]

\* change_uid(env, old_uid, new_uid, changers, attr_overwrite): the
\* tables, what is returned (result "error": the dictionary {'error':
\* items}; result "results": the dictionary of the items), the table
\* attribute of TicketUserIdChanger and the number of changers called.
change_uid(db, table, old_uid, new_uid, attr_overwrite) ==
    LET s1 == [db.session EXCEPT ![new_uid] = NoRow]
        s2 == [s1 EXCEPT ![new_uid] =
                  IF s1[old_uid] = NoRow THEN None ELSE s1[old_uid]]
        a1 == copy_user_attributes(db.session_attribute, old_uid, new_uid,
                                   attr_overwrite)
        a2 == IF attr_overwrite THEN del_user_attribute(a1, old_uid) ELSE a1
        r == replace_from(1, [db EXCEPT !.session = s2,
                                        !.session_attribute = a2],
                          table, old_uid, new_uid,
                          {Item("session_attribute", "sid", None,
                                copy_count(db.session_attribute, old_uid,
                                           new_uid, attr_overwrite))})
        done == [r.db EXCEPT !.session[old_uid] = NoRow]
    IN  IF r.error
        THEN [db |-> Committed(db, r.db, TRUE), result |-> "error",
              items |-> r.result, table |-> r.table, ran |-> r.ran]
        ELSE [db |-> done, result |-> "results",
              items |-> Update(r.result, {Item("session", "sid", None, 1)}),
              table |-> r.table, ran |-> r.ran]


\* ---- changing user ids as a state machine --------------------------

\* A row of ticket_change.
Change(id, time, field, oldvalue, newvalue, author) ==
    [ticket |-> id, time |-> time, field |-> field, oldvalue |-> oldvalue,
     newvalue |-> newvalue, author |-> author]

\* Histories of the ticket: the owner changed; the Cc list changed, in
\* one edit with the owner or on its own.
InitTicketChanges ==
    {{Change(1, "t1", "owner", <<"a">>, <<"b">>, "a")},
     {Change(1, "t1", "owner", <<"b">>, <<"a">>, "b"),
      Change(1, "t1", "cc", <<"a", ";", "b">>, <<"b">>, "b")},
     {Change(1, "t1", "cc", <<"ab">>, <<"ab", ",", "a", " ", "a">>, "a"),
      Change(1, "t2", "reporter", <<"a">>, <<"b">>, "b")}}

InitCcs == {<<>>, <<"a", ";", "b">>, <<"ab", " ", "b">>}

\* User "a" has a session, a password, a name, a cookie, a permission
\* and a row in every table; user "b" exists with rows of its own, or
\* has no row at all.
InitRename ==
    /\ store = "rename"
    /\ fromEmpty = FALSE
    /\ liveUsers = {}
    /\ os_linesep = "LF"
    /\ hash_method = "HtDigestHashMethod"
    /\ password_stores = <<"SessionStore">>
    /\ refresh_passwd = FALSE
    /\ radius_up = FALSE
    /\ ignore_auth_case = FALSE
    /\ passwordFile = NoFile
    /\ svn_users = [u \in Users |-> None]
    /\ changer_table = "ticket"
    /\ dbtype \in {"sqlite", "postgres"}
    /\ \E b \in BOOLEAN :
        /\ session = [u \in Users |->
                        IF u = "a" THEN "1700" ELSE IF b THEN "0" ELSE NoRow]
        /\ session_attribute =
            [k \in Users \X AttrNames |->
                CASE k = <<"a", "password">> ->
                        GenerateHash(hash_method, "a", "p1")
                  [] k = <<"a", "name">> -> "n"
                  [] k = <<"b", "name">> /\ b -> "m"
                  [] k = <<"b", "email">> /\ b -> "e"
                  [] OTHER -> None]
        /\ auth_cookie = [c \in CookieIds |->
                            IF c = "c1" THEN "a"
                            ELSE IF b THEN "b" ELSE NoRow]
        /\ permission = {<<"a", x>> : x \in Actions}
                            \cup {<<"b", x>> : x \in {y \in Actions : b}}
        /\ authored = [t \in AuthoredTables |->
                        [u \in Users |-> IF u = "a" \/ b THEN 1 ELSE 0]]
    /\ \E o \in Users, cc \in InitCcs :
        ticket = [i \in TicketIds |->
                    [owner |-> o, reporter |-> "a", cc |-> cc]]
    /\ ticket_change \in InitTicketChanges
    /\ writers = <<>>
    /\ last = NoCall

\* What a call of change_uid leaves: its arguments, what it returned and
\* the number of changers it called.
RenameCall(old_uid, new_uid, attr_overwrite, r) ==
    [op |-> "change_uid", old_uid |-> old_uid, new_uid |-> new_uid,
     attr_overwrite |-> attr_overwrite, result |-> r.result,
     items |-> r.items, ran |-> r.ran]

\* change_uid(env, old_uid, new_uid, changers, attr_overwrite)
ChangeUid(old_uid, new_uid, attr_overwrite) ==
    LET r == change_uid(Db, changer_table, old_uid, new_uid, attr_overwrite)
    IN  /\ session' = r.db.session
        /\ session_attribute' = r.db.session_attribute
        /\ auth_cookie' = r.db.auth_cookie
        /\ permission' = r.db.permission
        /\ authored' = r.db.authored
        /\ ticket' = r.db.ticket
        /\ ticket_change' = r.db.ticket_change
        /\ changer_table' = r.table
        /\ last' = RenameCall(old_uid, new_uid, attr_overwrite, r)
        /\ UNCHANGED <<storeVars, chainCfg, platform, inProgress,
                       otherStorage, passwordFile, dbtype>>

NextRename ==
    \E old_uid \in Users, new_uid \in Users, attr_overwrite \in BOOLEAN :
        ChangeUid(old_uid, new_uid, attr_overwrite)

SpecRename == InitRename /\ [][NextRename]_vars

\* ---- claims about changing a user id -------------------------------

\* The tables after the step.
DbNext ==
    [session |-> session', session_attribute |-> session_attribute',
     auth_cookie |-> auth_cookie', permission |-> permission',
     authored |-> authored', ticket |-> ticket',
     ticket_change |-> ticket_change']

\* No row of the session tables, the cookies, the permissions or a
\* changer's table refers to uid; attrs tells whether session_attribute
\* is looked at.
NoReference(db, uid, attrs) ==
    /\ db.session[uid] = NoRow
    /\ attrs => \A n \in AttrNames : db.session_attribute[<<uid, n>>] = None
    /\ \A c \in CookieIds : db.auth_cookie[c] # uid
    /\ \A x \in Actions : <<uid, x>> \notin db.permission
    /\ \A t \in AuthoredTables : db.authored[t][uid] = 0
    /\ \A i \in TicketIds :
        /\ db.ticket[i].owner # uid
        /\ db.ticket[i].reporter # uid
        /\ uid \notin Range(get_cc_list(db.ticket[i].cc))
    /\ \A r \in db.ticket_change :
        /\ r.author # uid
        /\ r.field \in {"owner", "reporter"} =>
            (r.oldvalue # <<uid>> /\ r.newvalue # <<uid>>)
        /\ r.field = "cc" =>
            /\ uid \notin Range(get_cc_list(r.oldvalue))
            /\ uid \notin Range(get_cc_list(r.newvalue))

\* C2: when a changer reports an error, every table holds after
\* change_uid what it held before: nothing of the change is kept.
C2_ErrorKeepsNothing ==
    [][(last'.op = "change_uid" /\ last'.result = "error") =>
        DbNext = Db]_vars

\* C3 as stated: after change_uid without an error, for either value of
\* attr_overwrite, no row of any table refers to old_uid and the session
\* of new_uid has the last_visit old_uid's session had.
C3_Original_NoRowRefersToOld ==
    [][(last'.op = "change_uid" /\ last'.result = "results") =>
        /\ NoReference(DbNext, last'.old_uid, TRUE)
        /\ session'[last'.new_uid] = session[last'.old_uid]]_vars

\* C3: after change_uid of old_uid to another new_uid without an error,
\* no row of session, auth_cookie, permission or a changer's table
\* refers to old_uid; session_attribute has no row of old_uid when
\* attr_overwrite is set and all the rows of old_uid it had when
\* attr_overwrite is not set; the session of new_uid has the last_visit
\* old_uid's session had, NULL when old_uid had no session.
C3_NoRowButKeptAttributesRefersToOld ==
    [][(/\ last'.op = "change_uid"
        /\ last'.result = "results"
        /\ last'.old_uid # last'.new_uid) =>
        LET old_uid == last'.old_uid
        IN  /\ NoReference(DbNext, old_uid, last'.attr_overwrite)
            /\ ~last'.attr_overwrite =>
                \A n \in AttrNames :
                    session_attribute'[<<old_uid, n>>]
                        = session_attribute[<<old_uid, n>>]
            /\ session'[last'.new_uid] =
                IF session[old_uid] = NoRow THEN None
                ELSE session[old_uid]]_vars

C3_Witness ==
    /\ last.op = "change_uid"
    /\ last.result = "results"
    /\ last.old_uid = "a"
    /\ last.new_uid = "b"
    /\ ~last.attr_overwrite
    /\ session_attribute[<<"a", "name">>] = "n"
    /\ session = [u \in Users |-> IF u = "b" THEN "1700" ELSE NoRow]
    /\ \E i \in TicketIds : "b" \in Range(get_cc_list(ticket[i].cc))

\* The step is a call of change_uid that returns the results of all
\* changers (no 'error').
Renamed == last'.op = "change_uid" /\ last'.result = "results"

\* C15: change_uid runs the changers in the given order and stops at the
\* first one whose result contains 'error': the changers after it are not
\* run, the session row of old_uid is not deleted, and what is returned
\* is {'error': {(table, column, constraint): message}} with the one
\* entry of the statement that failed.
C15_StopsAtFirstError ==
    [][(last'.op = "change_uid" /\ last'.result = "error") =>
        LET failing == FirstIndex({i \in 1..Len(changers) :
                          replace(changers[i], Db, changer_table,
                                  last'.old_uid, last'.new_uid).error})
        IN  /\ last'.ran = failing
            /\ \A i \in (failing + 1)..Len(changers) :
                  authored'[TableOf(changers[i])]
                      = authored[TableOf(changers[i])]
            /\ session[last'.old_uid] # NoRow
                  => session'[last'.old_uid] # NoRow
            /\ last'.items = {Item(changer_table, "owner", None,
                                   "OperationalError")}]_vars

\* A rename stopped at a changer while a later changer's table has rows
\* of old_uid, and old_uid has its session.
C15_Witness ==
    /\ last.op = "change_uid" /\ last.result = "error"
    /\ last.old_uid # last.new_uid
    /\ last.ran < Len(changers)
    /\ authored["wiki"][last.old_uid] > 0
    /\ session[last.old_uid] # NoRow

\* The names of a Cc value in order, without the separators.
NamesOf(value) == SelectSeq(value, LAMBDA t : t \notin Separators)

\* The names of a Cc value that are neither of the two.
OthersOf(value, old_uid, new_uid) ==
    SelectSeq(value, LAMBDA t : t \notin Separators \cup {old_uid, new_uid})

\* The number of names before the first uid in a Cc value.
PlaceOf(value, uid) ==
    LET names == NamesOf(value)
    IN  FirstIndex({i \in DOMAIN names : names[i] = uid}) - 1

\* C16: after TicketUserIdChanger.replace(old, new), a cc field that had
\* old as one of its names has new exactly once, where old was, and its
\* other names as before and in the same order, also when new was a name
\* of the field already; a cc field that has old only inside another name
\* is left as it is.
C16_CcHoldsNewOnce ==
    [][Renamed =>
        \A i \in TicketIds :
            LET old_uid == last'.old_uid
                new_uid == last'.new_uid
                before  == ticket[i].cc
                after   == ticket'[i].cc
            IN  IF old_uid \in Range(before)
                THEN /\ Cardinality({k \in DOMAIN after :
                                        after[k] = new_uid}) = 1
                     /\ OthersOf(after, old_uid, new_uid)
                            = OthersOf(before, old_uid, new_uid)
                     /\ Len(OthersOf(SubSeq(NamesOf(after), 1,
                                            PlaceOf(after, new_uid)),
                                     old_uid, new_uid))
                          = Len(OthersOf(SubSeq(NamesOf(before), 1,
                                                PlaceOf(before, old_uid)),
                                         old_uid, new_uid))
                ELSE after = before]_vars

\* What the statements of TicketUserIdChanger.replace other than the cc
\* rewrite make of a ticket_change row.
WithoutCcRewrite(r, old_uid, new_uid) ==
    [r EXCEPT !.author = replace_value(@, old_uid, new_uid),
              !.oldvalue = IF r.field \in {"owner", "reporter"}
                              /\ @ = <<old_uid>>
                           THEN <<new_uid>> ELSE @,
              !.newvalue = IF r.field \in {"owner", "reporter"}
                              /\ @ = <<old_uid>>
                           THEN <<new_uid>> ELSE @]

\* C17: the cc rewrite of TicketUserIdChanger.replace changes oldvalue and
\* newvalue only in ticket_change rows of field cc: a row of another field
\* keeps them (an owner or reporter row has them as the statements for
\* these fields leave them), also when it is of the ticket and time of a
\* cc row.
C17_CcRewriteOnlyInCcRows ==
    [][Renamed =>
        \A r \in ticket_change :
            r.field # "cc" =>
                WithoutCcRewrite(r, last'.old_uid, last'.new_uid)
                    \in ticket_change']_vars

\* The item of the count of copy_user_attributes in what change_uid
\* returned.
AttrCount(n) == Item("session_attribute", "sid", None, n)

\* C18: copy_user_attributes(old, new, overwrite), as change_uid calls it
\* for two uids: for each attribute of old, new gets old's value when it
\* had none; when it had one, that is replaced by old's if overwrite and
\* kept if not; attributes of new that old lacks are unchanged; the count
\* returned is the number of attributes inserted or replaced.
C18_CopyUserAttributes ==
    [][(Renamed /\ last'.old_uid # last'.new_uid) =>
        LET old_uid == last'.old_uid
            new_uid == last'.new_uid
            Of(uid, n) == session_attribute[<<uid, n>>]
            written == {n \in AttrNames :
                           /\ Of(old_uid, n) # None
                           /\ (Of(new_uid, n) = None
                               \/ last'.attr_overwrite)}
        IN  /\ \A n \in AttrNames :
                  session_attribute'[<<new_uid, n>>] =
                      IF n \in written THEN Of(old_uid, n)
                      ELSE Of(new_uid, n)
            /\ AttrCount(Cardinality(written)) \in last'.items]_vars

\* Without overwrite, new_uid has kept its name, got the password of
\* old_uid, and one attribute is counted.
C18_Witness ==
    /\ last.op = "change_uid" /\ last.result = "results"
    /\ last.old_uid = "a" /\ last.new_uid = "b"
    /\ ~last.attr_overwrite
    /\ session_attribute[<<"a", "name">>] = "n"
    /\ session_attribute[<<"b", "name">>] = "m"
    /\ session_attribute[<<"b", "password">>]
          = session_attribute[<<"a", "password">>]
    /\ session_attribute[<<"b", "password">>] # None
    /\ AttrCount(1) \in last.items

\* C19: after a change_uid that returned no error, old_uid has no
\* session_attribute row when attr_overwrite is set and the rows it had
\* before the call when attr_overwrite is not set.
C19_OldAttributes ==
    [][Renamed =>
        \A n \in AttrNames :
            session_attribute'[<<last'.old_uid, n>>] =
                IF last'.attr_overwrite THEN None
                ELSE session_attribute[<<last'.old_uid, n>>]]_vars

\* With overwrite, the attributes of old_uid are those of new_uid now and
\* old_uid has none.
C19_Witness ==
    /\ last.op = "change_uid" /\ last.result = "results"
    /\ last.old_uid # last.new_uid
    /\ last.attr_overwrite
    /\ AttrCount(2) \in last.items
    /\ session_attribute[<<last.new_uid, "name">>] = "n"
    /\ \A n \in AttrNames : session_attribute[<<last.old_uid, n>>] = None

\* C20: UniqueUserIdChanger.replace(old, new) for two uids, on
\* auth_cookie and on permission, also when the table has rows of new:
\* it reports the number of rows it re-keyed and no error; afterwards the
\* rows of new are the rows old had and no row is of old.
C20_UniqueReplace ==
    [][(Renamed /\ last'.old_uid # last'.new_uid) =>
        LET old_uid == last'.old_uid
            new_uid == last'.new_uid
            cookies == {c \in CookieIds : auth_cookie[c] = old_uid}
            granted == {x \in Actions : <<old_uid, x>> \in permission}
        IN  /\ {c \in CookieIds : auth_cookie'[c] = new_uid} = cookies
            /\ \A c \in CookieIds : auth_cookie'[c] # old_uid
            /\ Item("auth_cookie", "name", None, Cardinality(cookies))
                  \in last'.items
            /\ {x \in Actions : <<new_uid, x>> \in permission'} = granted
            /\ \A x \in Actions : <<old_uid, x>> \notin permission'
            /\ Item("permission", "username", None, Cardinality(granted))
                  \in last'.items]_vars

\* "a" was renamed to "b", which had rows of its own in every table (the
\* wiki holds the pages of both now): the cookie of "b" is gone, the
\* cookie of "a" is the one of "b".
C20_Witness ==
    /\ last.op = "change_uid" /\ last.result = "results"
    /\ last.old_uid = "a" /\ last.new_uid = "b"
    /\ authored["wiki"]["b"] = 2
    /\ auth_cookie = [c \in CookieIds |-> IF c = "c1" THEN "b" ELSE NoRow]
    /\ Item("auth_cookie", "name", None, 1) \in last.items

\* The keys of what change_uid returns when no changer fails: one for the
\* attributes, one for each statement of each changer, one for the session.
ResultKeys ==
    {<<"session_attribute", "sid", None>>, <<"session", "sid", None>>,
     <<"attachment", "author", None>>, <<"auth_cookie", "name", None>>,
     <<"component", "owner", None>>, <<"permission", "username", None>>,
     <<"report", "author", None>>, <<"revision", "author", None>>,
     <<"wiki", "author", None>>,
     <<"ticket", "owner", None>>, <<"ticket", "reporter", None>>,
     <<"ticket", "cc", None>>, <<"ticket_change", "author", None>>,
     <<"ticket_change", "oldvalue", "field='owner'|'reporter'">>,
     <<"ticket_change", "newvalue", "field='owner'|'reporter'">>,
     <<"ticket_change", "oldvalue", "field='cc'">>,
     <<"ticket_change", "newvalue", "field='cc'">>}

ResetMade == last.temp # None /\ last.old # {} /\ last.temp \notin last.old

\* C31: after a password reset and before any successful login, both the
\* old password and the temporary password authenticate the user in
\* _remote_user; a successful login with the old password deletes the
\* temporary password, which no longer authenticates afterwards.
C31_OldAndTemporary ==
    /\ (ResetMade /\ last.logins = {} /\ ~last.changed)
        => \A p \in last.old \cup {last.temp} :
              remote_user(World, "a", p).result = "a"
    /\ (/\ ResetMade
        /\ ~last.changed
        /\ last.op = "_remote_user"
        /\ last.result = "a"
        /\ last.password \in last.old
        /\ last.logins = {last.password})
        => /\ reset_check_password(session_attribute, "a", last.temp) # PyTrue
           /\ remote_user(World, "a", last.temp).result = None

\* The user has logged in with the old password after a reset.
C31_Witness ==
    /\ ResetMade
    /\ ~last.changed
    /\ last.op = "_remote_user"
    /\ last.result = "a"
    /\ last.password \in last.old
    /\ last.logins = {last.password}

(***************************************************************************)
(* Further claims about change_uid (SpecRename)                            *)
(***************************************************************************)
\* C32: after a successful change_uid(old, new, ...) the password follows
\* the rename: check_password(new, pw) is True for the password pw that
\* verified for old before the rename, and check_password(old, pw) is no
\* longer True.
C32_PasswordFollowsRename ==
    [][(/\ last'.op = "change_uid"
        /\ last'.result = "results"
        /\ last'.old_uid # last'.new_uid)
        => \A pw \in Passwords :
              check_password(World, last'.old_uid, pw).result = PyTrue
                  => /\ check_password(WorldNext, last'.new_uid,
                                       pw).result = PyTrue
                     /\ check_password(WorldNext, last'.old_uid,
                                       pw).result # PyTrue]_vars

\* C33: TicketUserIdChanger.replace behaves the same on every call on the
\* same component instance: a second and any later rename again updates
\* table ticket and then ticket_change, and reports the same (table,
\* column, constraint) keys as the first.
C33_SameOnEveryCall ==
    [][(last'.op = "change_uid" /\ last'.old_uid # last'.new_uid)
        => /\ last'.result = "results"
           /\ {item[1] : item \in last'.items} = ResultKeys]_vars

(***************************************************************************)
(* Further claims about the password reset procedure (SpecReset)           *)
(***************************************************************************)
\* C34: once the user has changed the password through
\* _do_change_password after a password reset, the temporary password no
\* longer authenticates: _remote_user rejects every later login attempt
\* with it and does not change the account's password.
C34_TemporaryPasswordEnds ==
    (/\ ResetMade
     /\ last.changed
     /\ check_password(World, "a", last.temp).result # PyTrue)
        => /\ remote_user(World, "a", last.temp).result = None
           /\ remote_user(World, "a", last.temp).w = World

\* C35: after a password reset the force_change_passwd attribute of the
\* user stays set over any sequence of logins until the user has changed
\* the password through _do_change_password.
C35_ForcedUntilChanged ==
    [][(/\ last.temp # None
        /\ session_attribute[<<"a", "force_change_passwd">>] # None
        /\ last'.op = "_remote_user")
        => session_attribute'[<<"a", "force_change_passwd">>] # None]_vars

\* C38: change_uid(old, new, changers, attr_overwrite) with old equal to
\* new leaves the account intact: afterwards the session row, the session
\* attributes, the auth cookies and the permissions of that uid are the
\* same as before the call.
C38_SameUidKeepsAccount ==
    [][(last'.op = "change_uid" /\ last'.old_uid = last'.new_uid)
        => LET u == last'.old_uid
           IN  /\ session'[u] = session[u]
               /\ \A n \in AttrNames :
                     session_attribute'[<<u, n>>] = session_attribute[<<u, n>>]
               /\ auth_cookie' = auth_cookie
               /\ permission' = permission]_vars

=============================================================================
